---- MODULE Spec2Model ----
(***************************************************************************)
(* Model of the KBA market-analysis notebooks: the FZ1 parser and          *)
(* orchestration notebook (notebooks/_4_fz1.ipynb), the numeric coercers   *)
(* of the FZ8, FZ3 and upload notebooks, and the header helpers.           *)
(*                                                                         *)
(* Text is modelled as a sequence of one-character strings, so that        *)
(* formatting, matching and parsing are computed and not assumed.          *)
(* Characters that are not ASCII carry a name ("endash", "emdash").        *)
(***************************************************************************)
EXTENDS Integers, Sequences, FiniteSets, TLC

VARIABLES
    \* ---- _unique(cols): the loop's locals
    cols, seen, out,
    \* ---- a numeric coercer applied to one cell: which one, its input, its result
    coercer, token, coerced,
    \* ---- one call of fz1_1 / fz1_2: the worksheet argument and the parser's state
    ws, ps,
    \* ---- the FZ1 notebook: the directories that exist, the workbooks of
    \* DATA_DIR, the CSV files written, the accumulators, the position of the
    \* run (cell, loop indices) and the number of runs started
    dirs, files, artifacts, globals_by_sheet, pc, run,
    \* the list of discrepancies check_fz1_layout built when it last ran, and
    \* the lines the accumulation loop has printed in the current run
    issues, log,
    \* ---- history of the FZ1 notebook: whether DATA_DIR existed when the
    \* current run started, the artifacts the current run has written, and the
    \* artifacts as the first completed export left them, and per sub-sheet the
    \* frames the parser returned in the current run with the paths they came from
    hadDataDir, written, firstExport, blocks,
    \* ---- the upload notebook: the CSV files under ../data/processed/ by
    \* sub-folder and name, the tables of the database schema, the paths the
    \* bulk-upload loop has still to visit, the position of the run and the
    \* number of runs started
    processed, tables, todo, upc, uruns,
    \* history of the upload notebook: per run of the preprocessing cell, the
    \* numbers the numeric columns held when the files were written back
    prepValues,
    \* ---- one call of _clean_header: its argument and what it returned
    header, cleaned

uniqueVars == <<cols, seen, out>>
coerceVars == <<coercer, token, coerced>>
parserVars == <<ws, ps>>
notebookVars == <<dirs, files, artifacts, globals_by_sheet, pc, run, issues, log,
                  hadDataDir, written, firstExport, blocks>>
uploadVars == <<processed, tables, todo, upc, uruns, prepValues>>
\* what the cells of the FZ1 notebook leave alone
headerVars == <<header, cleaned>>
otherVars == <<uniqueVars, coerceVars, parserVars, uploadVars, headerVars>>
vars == <<uniqueVars, coerceVars, parserVars, notebookVars, uploadVars, headerVars>>

----------------------------------------------------------------------------
(* Bounds of the model *)

\* longest header list handed to _unique
MaxCols == 4
\* longest token enumerated exhaustively for the numeric coercers
MaxTokLen == 4
\* most data rows of a worksheet enumerated exhaustively
MaxRows == 4
\* most runs of the FZ1 notebook in one behaviour
MaxRuns == 2
\* most data rows of a CSV file handed to the upload notebook
MaxCsvRows == 2
\* most runs of the upload notebook in one behaviour
MaxUploadRuns == 2
\* longest header text enumerated exhaustively for _clean_header
MaxHeaderLen == 7
\* most executions of the accumulation cell on one initialisation of the
\* accumulators
MaxPasses == 2

----------------------------------------------------------------------------
(* Text helpers *)

\* Python's None, as a header cell can be; distinct from every text
None == <<"<None>">>

Digit == <<"0", "1", "2", "3", "4", "5", "6", "7", "8", "9">>
DigitSet == {Digit[i] : i \in 1..10}

\* value of a digit character
DigitVal(c) == (CHOOSE i \in 1..10 : Digit[i] = c) - 1

\* str(k) of a natural number k
RECURSIVE Decimal(_)
Decimal(k) == IF k < 10 THEN <<Digit[k + 1]>>
              ELSE Decimal(k \div 10) \o <<Digit[(k % 10) + 1]>>

\* str(c) as an f-string renders a header cell: None prints as "None"
PyStr(c) == IF c = None THEN <<"N", "o", "n", "e">> ELSE c

\* all sequences over S of length 0..n
SeqUpTo(S, n) == UNION {[1..k -> S] : k \in 0..n}

----------------------------------------------------------------------------
(* _unique *)

\* header names handed to _unique in the model: plain names, a name that is
\* another name plus a digit, and None (an empty header cell)
HeaderNames == {<<"X">>, <<"Y">>, <<"X", "1">>, None}

EmptyDict == [c \in {} |-> 0]

\* the mutant: the suffix is taken before the counter is incremented
unique_body_suffix_before_increment(c, sn, o) ==
    IF c \in DOMAIN sn
    THEN [seen |-> [sn EXCEPT ![c] = @ + 1],
          out |-> Append(o, PyStr(c) \o Decimal(sn[c]))]
    ELSE [seen |-> [x \in DOMAIN sn \cup {c} |-> IF x = c THEN 0 ELSE sn[x]],
          out |-> Append(o, c)]

\* the body of `for c in cols`: the dictionary and the list after it
unique_body(c, sn, o) ==
    IF c \in DOMAIN sn
    THEN [seen |-> [sn EXCEPT ![c] = @ + 1],
          out |-> Append(o, PyStr(c) \o Decimal(sn[c] + 1))]
    ELSE [seen |-> [x \in DOMAIN sn \cup {c} |-> IF x = c THEN 0 ELSE sn[x]],
          out |-> Append(o, c)]

\* one iteration of the loop (the element is cols[len(out)])
unique_step ==
    /\ Len(out) < Len(cols)
    /\ LET r == unique_body(cols[Len(out) + 1], seen, out) IN
         /\ seen' = r.seen
         /\ out' = r.out
    /\ UNCHANGED <<cols, coerceVars, parserVars, notebookVars, uploadVars, headerVars>>

RECURSIVE unique_loop(_, _, _)
unique_loop(cs, sn, o) ==
    IF cs = <<>> THEN o
    ELSE LET r == unique_body(Head(cs), sn, o) IN unique_loop(Tail(cs), r.seen, r.out)

\* _unique(cols) as the callers use it
_unique(cs) == unique_loop(cs, EmptyDict, <<>>)

\* `return out` is reached when the loop has consumed cols
unique_returned == Len(out) = Len(cols)

IdleUnique == cols = <<>> /\ seen = EmptyDict /\ out = <<>>

InitUnique ==
    /\ cols \in SeqUpTo(HeaderNames, MaxCols)
    /\ seen = EmptyDict
    /\ out = <<>>

----------------------------------------------------------------------------
(* Cell values: a text, a number m / 10^e (normalised), or missing (NaN, None, NA) *)

Txt(s) == [t |-> "str", s |-> s, m |-> 0, e |-> 0]
NaN == [t |-> "nan", s |-> <<>>, m |-> 0, e |-> 0]

RECURSIVE Normalise(_, _)
Normalise(m, e) == IF e > 0 /\ m % 10 = 0 THEN Normalise(m \div 10, e - 1)
                   ELSE [t |-> "num", s |-> <<>>, m |-> m, e |-> e]
Num(m, e) == Normalise(m, e)

IsTxt(v) == v.t = "str"
IsNum(v) == v.t = "num"
IsNaN(v) == v.t = "nan"

\* what \s matches and str.strip() removes, among the characters of the model
Whitespace == {" ", "nl"}

\* s without the characters of the set R
RECURSIVE Remove(_, _)
Remove(s, R) == IF s = <<>> THEN <<>>
                ELSE IF Head(s) \in R THEN Remove(Tail(s), R)
                ELSE <<Head(s)>> \o Remove(Tail(s), R)

\* s with every character a turned into b
Translate(s, a, b) == [i \in 1..Len(s) |-> IF s[i] = a THEN b ELSE s[i]]

RECURSIVE LStrip(_)
LStrip(s) == IF s # <<>> /\ Head(s) \in Whitespace THEN LStrip(Tail(s)) ELSE s
RECURSIVE RStrip(_)
RStrip(s) == IF s # <<>> /\ s[Len(s)] \in Whitespace
             THEN RStrip(SubSeq(s, 1, Len(s) - 1)) ELSE s
\* str.strip()
Strip(s) == RStrip(LStrip(s))

\* value of a run of digits
RECURSIVE DigitsVal(_)
DigitsVal(s) == IF s = <<>> THEN 0
                ELSE 10 * DigitsVal(SubSeq(s, 1, Len(s) - 1)) + DigitVal(s[Len(s)])

AllDigits(s) == \A i \in 1..Len(s) : s[i] \in DigitSet

\* the float grammar over the characters of the model: [+-]? digits [. digits];
\* at least one digit; surrounding whitespace is tolerated by the parser
IsFloatText(s) ==
    LET u == Strip(s)
        b == IF u # <<>> /\ Head(u) \in {"-", "+"} THEN Tail(u) ELSE u
        dots == {i \in 1..Len(b) : b[i] = "."}
    IN /\ Cardinality(dots) <= 1
       /\ AllDigits(Remove(b, {"."}))
       /\ Remove(b, {"."}) # <<>>

FloatOf(s) ==
    LET u == Strip(s)
        neg == u # <<>> /\ Head(u) = "-"
        b == IF u # <<>> /\ Head(u) \in {"-", "+"} THEN Tail(u) ELSE u
        dots == {i \in 1..Len(b) : b[i] = "."}
        e == IF dots = {} THEN 0 ELSE Len(b) - (CHOOSE i \in dots : TRUE)
        m == DigitsVal(Remove(b, {"."}))
    IN Num(IF neg THEN 0 - m ELSE m, e)

\* the mutant: errors="raise" (an unparseable text is an error, not NaN)
Failure == [t |-> "error", s |-> <<>>, m |-> 0, e |-> 0]
to_numeric_raise(v) ==
    IF IsTxt(v) THEN (IF IsFloatText(v.s) THEN FloatOf(v.s) ELSE Failure) ELSE v

\* pd.to_numeric(x, errors="coerce") on one cell
to_numeric(v) ==
    IF IsTxt(v) THEN (IF IsFloatText(v.s) THEN FloatOf(v.s) ELSE NaN) ELSE v

----------------------------------------------------------------------------
(* The numeric coercers, on one cell of the column they are applied to *)

Dashes == {<<"-">>, <<"endash">>, <<"emdash">>}

\* col.str.replace(r"\s|\.", "", regex=True) then col.str.replace(",", ".")
UnGerman(v) ==
    IF IsTxt(v) THEN Txt(Translate(Remove(v.s, Whitespace \cup {"."}), ",", ".")) ELSE v

\* _to_float of the upload notebook
to_float_upload(v) ==
    LET stripped == IF IsTxt(v) THEN Txt(Strip(v.s)) ELSE v
        masked == IF IsTxt(stripped) /\ (stripped.s \in Dashes \/ stripped.s = <<".">>)
                  THEN NaN ELSE stripped
    IN to_numeric(UnGerman(masked))

\* col.replace({"-": None, ".": None}): whole-cell equality, ASCII hyphen only
ReplacePlaceholders(v) ==
    IF IsTxt(v) /\ v.s \in {<<"-">>, <<".">>} THEN NaN ELSE v

\* _to_float of the FZ8 notebook
to_float_fz8(v) == to_numeric(UnGerman(ReplacePlaceholders(v)))

\* _to_float of the FZ3 notebook (the same steps, then astype("float64"))
to_float_fz3(v) == to_numeric(UnGerman(ReplacePlaceholders(v)))

\* df.replace({'-': pd.NA, r'^\.$': pd.NA}, regex=True): a text in which the
\* pattern is found anywhere is replaced as a whole ('$' also matches before a
\* final newline)
ReplaceRegex(v) ==
    IF IsTxt(v) /\ ((\E i \in 1..Len(v.s) : v.s[i] = "-") \/ v.s \in {<<".">>, <<".", "nl">>})
    THEN NaN ELSE v

\* the coercion step of fz1_1 and fz1_2
coerce_fz1(v) == to_numeric(ReplaceRegex(v))

Coercers == {"upload", "fz8", "fz3", "fz1"}

Apply(c, v) ==
    CASE c = "upload" -> to_float_upload(v)
      [] c = "fz8" -> to_float_fz8(v)
      [] c = "fz3" -> to_float_fz3(v)
      [] c = "fz1" -> coerce_fz1(v)

\* characters of the exhaustively enumerated tokens
TokChars == {"0", "1", ".", ",", "-", " ", "endash", "emdash"}

\* longer tokens of the kind the workbooks hold
SampleTokens ==
    { <<"1", ".", "2", "3", "4", ",", "5", "6">>,
      <<"4", "2">>,
      <<"1", ",", "2", "3", "4", ".", "5", "6">>,
      <<"1", ".", "2", "3", "4">>,
      <<"-", "1", "2", ".", "3", "4", "5">>,
      <<" ", "1", "0", " ", "0", "0", "0", " ">>,
      <<"1", "2", "3", "4", ".", "5", "6">> }

Tokens == {Txt(s) : s \in SeqUpTo(TokChars, MaxTokLen) \cup SampleTokens} \cup {NaN}

Pending == [t |-> "pending", s |-> <<>>, m |-> 0, e |-> 0]

IdleCoerce == coercer = "none" /\ token = NaN /\ coerced = Pending

InitCoerce ==
    /\ coercer \in Coercers
    /\ token \in Tokens
    /\ coerced = Pending

Coerce(c) ==
    /\ coercer = c
    /\ coerced = Pending
    /\ coerced' = Apply(c, token)
    /\ UNCHANGED <<coercer, token, uniqueVars, parserVars, notebookVars, uploadVars, headerVars>>

----------------------------------------------------------------------------
(* Text operations of the FZ1 notebook *)

LowerCase == <<"a", "b", "c", "d", "e", "f", "g", "h", "i", "j", "k", "l", "m",
               "n", "o", "p", "q", "r", "s", "t", "u", "v", "w", "x", "y", "z">>
UpperCase == <<"A", "B", "C", "D", "E", "F", "G", "H", "I", "J", "K", "L", "M",
               "N", "O", "P", "Q", "R", "S", "T", "U", "V", "W", "X", "Y", "Z">>

\* str.upper(), character by character
UpperChar(c) == IF \E i \in 1..26 : LowerCase[i] = c
                THEN UpperCase[CHOOSE i \in 1..26 : LowerCase[i] = c] ELSE c
Upper(s) == [i \in 1..Len(s) |-> UpperChar(s[i])]

\* str.translate(str.maketrans("aeiouAEIOU umlauts", "aAoOuU")): the umlauts
\* are the characters "a_uml", "A_uml", "o_uml", "O_uml", "u_uml", "U_uml"
FoldUmlaut(c) ==
    CASE c = "a_uml" -> "a" [] c = "A_uml" -> "A"
      [] c = "o_uml" -> "o" [] c = "O_uml" -> "O"
      [] c = "u_uml" -> "u" [] c = "U_uml" -> "U"
      [] OTHER -> c
FoldUmlauts(s) == [i \in 1..Len(s) |-> FoldUmlaut(s[i])]

\* str.replace(old, new): one pass from the left over non-overlapping matches
RECURSIVE Replace(_, _, _)
Replace(s, old, new) ==
    IF Len(s) < Len(old) THEN s
    ELSE IF SubSeq(s, 1, Len(old)) = old
         THEN new \o Replace(SubSeq(s, Len(old) + 1, Len(s)), old, new)
         ELSE <<Head(s)>> \o Replace(Tail(s), old, new)

\* `sub in s`
Contains(s, sub) ==
    \E i \in 1..(Len(s) - Len(sub) + 1) : SubSeq(s, i, i + Len(sub) - 1) = sub

T_LAND == <<"L", "A", "N", "D">>
T_STATISTISCHE == <<"S", "T", "A", "T", "I", "S", "T", "I", "S", "C", "H", "E">>
T_UE == <<"U", "E">>
T_U == <<"U">>
T_INSGESAMT == <<"I", "N", "S", "G", "E", "S", "A", "M", "T">>
T_HINWEIS == <<"H", "I", "N", "W", "E", "I", "S">>
T_FLENSBURG == <<"F", "L", "E", "N", "S", "B", "U", "R", "G">>
T_REVIDIERT == <<"R", "E", "V", "I", "D", "I", "E", "R", "T">>
T_SONSTIGE == <<"S", "O", "N", "S", "T", "I", "G", "E">>
T_DATE == <<"D", "A", "T", "E">>

\* the mutant: double spaces are collapsed until none is left
RECURSIVE Squeeze(_)
Squeeze(s) == IF Contains(s, <<" ", " ">>) THEN Squeeze(Replace(s, <<" ", " ">>, <<" ">>)) ELSE s
_clean_header_squeezed(s) ==
    IF s = None THEN None
    ELSE Upper(Strip(Squeeze(Replace(FoldUmlauts(s), <<"nl">>, <<" ">>))))

\* _clean_header(s)
_clean_header(s) ==
    IF s = None THEN None
    ELSE Upper(Strip(Replace(Replace(FoldUmlauts(s), <<"nl">>, <<" ">>),
                             <<" ", " ">>, <<" ">>)))

\* the characters of the exhaustively enumerated header texts
HeaderChars == {"a", " ", "nl"}
HeaderTexts == SeqUpTo(HeaderChars, MaxHeaderLen) \cup {None, <<"K", "r", "a_uml", "d", "e", "r">>}
NotCleaned == <<"<pending>">>

IdleHeader == header = None /\ cleaned = None
InitHeader == header \in HeaderTexts /\ cleaned = NotCleaned

\* one call of _clean_header
CleanHeader ==
    /\ cleaned = NotCleaned
    /\ cleaned' = _clean_header(header)
    /\ UNCHANGED <<header, uniqueVars, coerceVars, parserVars, notebookVars, uploadVars>>

\* the lambda of applymap: v.replace("  ", " ").strip().upper() on a text cell
CleanCell(v) ==
    IF IsTxt(v) THEN Txt(Upper(Strip(Replace(v.s, <<" ", " ">>, <<" ">>)))) ELSE v

\* str(x) of a number m / 10^e
RECURSIVE ZeroPad(_, _)
ZeroPad(s, n) == IF Len(s) >= n THEN s ELSE ZeroPad(<<"0">> \o s, n)
RECURSIVE Pow10(_)
Pow10(e) == IF e = 0 THEN 1 ELSE 10 * Pow10(e - 1)
NumStr(m, e) ==
    LET a == IF m < 0 THEN 0 - m ELSE m
        body == IF e = 0 THEN Decimal(a)
                ELSE Decimal(a \div Pow10(e)) \o <<".">> \o ZeroPad(Decimal(a % Pow10(e)), e)
    IN IF m < 0 THEN <<"-">> \o body ELSE body

\* .astype(str) on one cell of an object column: None prints as "None"
AsStr(v) ==
    CASE IsTxt(v) -> v
      [] IsNum(v) -> Txt(NumStr(v.m, v.e))
      [] OTHER -> Txt(<<"N", "o", "n", "e">>)

\* the keywords of `trash`
TrashKeywords == {T_INSGESAMT, T_HINWEIS, T_FLENSBURG, T_REVIDIERT, T_SONSTIGE}

\* .str.contains(trash, case=False, na=False) on one cell
IsTrash(v) == IsTxt(v) /\ \E k \in TrashKeywords : Contains(Upper(v.s), k)

----------------------------------------------------------------------------
(* Data frames: a list of column labels and a list of rows aligned with it *)

Min(S) == CHOOSE x \in S : \A y \in S : x <= y
Max(S) == CHOOSE x \in S : \A y \in S : x >= y
Range(f) == {f[i] : i \in DOMAIN f}

EmptyFrame == [columns |-> <<>>, rows |-> <<>>]

\* the keys of a dict literal {cs[1]: .., cs[2]: ..}: one per distinct key, in
\* the order of first insertion
RECURSIVE DictKeys(_)
DictKeys(cs) ==
    IF cs = <<>> THEN <<>>
    ELSE LET k == DictKeys(SubSeq(cs, 1, Len(cs) - 1)) IN
         IF cs[Len(cs)] \in Range(k) THEN k ELSE Append(k, cs[Len(cs)])

\* pd.DataFrame({cs[i]: column i of the sheet}): a repeated key keeps the value
\* given last
DataFrameOfDict(cs, data) ==
    LET keys == DictKeys(cs)
        src(p) == Max({i \in 1..Len(cs) : cs[i] = keys[p]})
    IN [columns |-> keys,
        rows |-> [r \in 1..Len(data) |-> [p \in 1..Len(keys) |-> data[r][src(p)]]]]

AllNaN(r) == \A p \in 1..Len(r) : IsNaN(r[p])
KeepNotAllNaN(r) == ~AllNaN(r)

\* .dropna(how="all")
dropna_all(df) == [df EXCEPT !.rows = SelectSeq(@, KeepNotAllNaN)]

\* _strip_cols(df)
_strip_cols(df) == [df EXCEPT !.columns = [p \in 1..Len(@) |-> _clean_header(@[p])]]

\* the places of label in df.columns
ColPositions(df, label) == {p \in 1..Len(df.columns) : df.columns[p] = label}

\* next(c for c in df.columns if sub in c): the generator stops at the first
\* column that holds sub, and `sub in None` raises before that
Candidates(df, sub) ==
    {p \in 1..Len(df.columns) : df.columns[p] = None \/ Contains(df.columns[p], sub)}
NextRaises(df, sub) ==
    Candidates(df, sub) = {} \/ df.columns[Min(Candidates(df, sub))] = None
NextColumn(df, sub) == df.columns[Min(Candidates(df, sub))]

\* .astype(str) on one cell of a float64 column: 5.0 prints as "5.0", a
\* missing value as "nan"
AsStrFloat(v) ==
    CASE IsNum(v) /\ v.e = 0 -> Txt(NumStr(v.m, 0) \o <<".", "0">>)
      [] IsNum(v) -> Txt(NumStr(v.m, v.e))
      [] OTHER -> Txt(<<"n", "a", "n">>)

\* .astype(str).str.replace("UE", "U", regex=False) on one cell
UEtoU(v) == Txt(Replace(AsStr(v).s, T_UE, T_U))
\* the same on a cell of a float64 column
UEtoUFloat(v) == Txt(Replace(AsStrFloat(v).s, T_UE, T_U))
\* .mask(df == 0) on one cell
MaskZero(v) == IF IsNum(v) /\ v.m = 0 THEN NaN ELSE v
\* .fillna("") on one cell
FillEmpty(v) == IF IsNaN(v) THEN Txt(<<>>) ELSE v

\* the element-wise operations the notebook applies to columns
CellOp(op, v) ==
    CASE op = "ue" -> UEtoU(v)
      [] op = "ue_float" -> UEtoUFloat(v)
      [] op = "clean" -> CleanCell(v)
      [] op = "coerce" -> coerce_fz1(v)
      [] op = "mask" -> MaskZero(v)
      [] op = "fillna" -> FillEmpty(v)

\* the rows of df with the operation op applied to the cells of the positions P
MapCells(df, P, op) ==
    [df EXCEPT !.rows = [r \in 1..Len(@) |->
        [p \in 1..Len(@[r]) |-> IF p \in P THEN CellOp(op, @[r][p]) ELSE @[r][p]]]]

\* the mutant: a missing cell takes the cell right above it as the sheet has it
\* (no carry over a run of missing cells)
RECURSIVE ffill_no_carry(_)
ffill_no_carry(v) ==
    IF Len(v) <= 1 THEN v
    ELSE Append(ffill_no_carry(SubSeq(v, 1, Len(v) - 1)),
                IF IsNaN(v[Len(v)]) THEN v[Len(v) - 1] ELSE v[Len(v)])

\* Series.ffill(): a missing cell takes the value above it, as filled so far
RECURSIVE ffill(_)
ffill(v) ==
    IF Len(v) <= 1 THEN v
    ELSE LET f == ffill(SubSeq(v, 1, Len(v) - 1)) IN
         Append(f, IF IsNaN(v[Len(v)]) THEN f[Len(f)] ELSE v[Len(v)])

Column(df, p) == [r \in 1..Len(df.rows) |-> df.rows[r][p]]

\* df[label] = df[label].ffill()
FFillColumn(df, label) ==
    [df EXCEPT !.rows = [r \in 1..Len(@) |->
        [p \in 1..Len(@[r]) |->
            IF p \in ColPositions(df, label) THEN ffill(Column(df, p))[r] ELSE @[r][p]]]]

----------------------------------------------------------------------------
(* fz1_1 / fz1_2.  The two parsers differ only in the cell coordinates they
   read; a worksheet of the model holds its header cells and its data columns
   in the order of the configured coordinates, so both are the operator below.
   The parser state: the frame df, the dtype pandas gave each of its columns
   when it was built, the list cols, and where the parser is.
   Two fields are history: touched, the columns coercion was applied to, and
   src, for every row of df the data row of the sheet it was read from (the
   index of the frame before reset_index(drop=True) discards it).            *)

\* the mutant: the selected rows, the last one first
RECURSIVE boolean_select_reversed(_, _)
boolean_select_reversed(s, K) ==
    IF s = <<>> THEN <<>>
    ELSE IF Len(s) \in K
         THEN <<s[Len(s)]>> \o boolean_select_reversed(SubSeq(s, 1, Len(s) - 1), K)
         ELSE boolean_select_reversed(SubSeq(s, 1, Len(s) - 1), K)

\* df[mask]: the rows at the places K, in the order they have
RECURSIVE boolean_select(_, _)
boolean_select(s, K) ==
    IF s = <<>> THEN <<>>
    ELSE IF Len(s) \in K
         THEN Append(boolean_select(SubSeq(s, 1, Len(s) - 1), K), s[Len(s)])
         ELSE boolean_select(SubSeq(s, 1, Len(s) - 1), K)

ParserStart ==
    [pc |-> "start", cols |-> <<>>, df |-> EmptyFrame, dtype |-> <<>>,
     touched |-> {}, src |-> <<>>]

Raise(st) == [st EXCEPT !.pc = "raised"]

\* the dtype pd.DataFrame gives a column built from a list of cell values:
\* numbers only make int64, numbers and empty cells float64, anything else
\* object
InferDtype(col) ==
    IF \E r \in 1..Len(col) : IsTxt(col[r]) THEN "object"
    ELSE IF \A r \in 1..Len(col) : IsNaN(col[r]) THEN "object"
    ELSE IF \E r \in 1..Len(col) : IsNaN(col[r]) THEN "float64"
    ELSE "int64"

\* the .str accessor raises AttributeError on a column that is not of dtype
\* object, and on an object column whose values are numbers only
StrAccessorRaises(dt, col) ==
    \/ dt # "object"
    \/ /\ \E r \in 1..Len(col) : IsNum(col[r])
       /\ \A r \in 1..Len(col) : ~IsTxt(col[r])

\* raw = [...]; cols = _unique(raw); df = pd.DataFrame({...}).dropna(how="all");
\* df = _strip_cols(df)
fz1_frame(w, st) ==
    LET cs == _unique([i \in 1..Len(w.hdr) |-> _clean_header(w.hdr[i])])
        raw == DataFrameOfDict(cs, w.data)
    IN [st EXCEPT !.pc = "frame", !.cols = cs,
                  !.df = _strip_cols(dropna_all(raw)),
                  !.dtype = [p \in 1..Len(raw.columns) |-> InferDtype(Column(raw, p))],
                  !.src = boolean_select([r \in 1..Len(raw.rows) |-> r],
                                         {r \in 1..Len(raw.rows) : ~AllNaN(raw.rows[r])})]

\* seg_col = next(... "LAND" ...); df[seg_col] = df[seg_col].ffill()
fz1_ffill(st) ==
    IF NextRaises(st.df, T_LAND) THEN Raise(st)
    ELSE [st EXCEPT !.pc = "ffill", !.df = FFillColumn(st.df, NextColumn(st.df, T_LAND))]

\* mask = df[seg_col].astype(str).str.contains(trash, case=False, na=False);
\* df = df[~mask].reset_index(drop=True).  Under a repeated label df[seg_col] is
\* a frame, which has no .str
fz1_trash(st) ==
    LET P == ColPositions(st.df, NextColumn(st.df, T_LAND)) IN
    IF Cardinality(P) # 1 THEN Raise(st)
    ELSE LET p == CHOOSE q \in P : TRUE
             K == {r \in 1..Len(st.df.rows) : ~IsTrash(AsStr(st.df.rows[r][p]))}
         IN [st EXCEPT !.pc = "trash", !.df.rows = boolean_select(@, K),
                       !.src = boolean_select(@, K)]

\* df[seg_col] = df[seg_col].astype(str).str.replace("UE", "U", regex=False)
fz1_ue(st) ==
    LET P == ColPositions(st.df, NextColumn(st.df, T_LAND)) IN
    [st EXCEPT !.pc = "ue",
               !.df = MapCells(st.df, P,
                               IF \A p \in P : st.dtype[p] = "float64"
                               THEN "ue_float" ELSE "ue"),
               !.dtype = [p \in 1..Len(@) |-> IF p \in P THEN "object" ELSE @[p]]]

\* seg_col = next(... "STATISTISCHE" ...); df = df.dropna(subset=[seg_col]);
\* df = df[df[seg_col].str.strip().ne("")].reset_index(drop=True)
fz1_discriminator(st) ==
    IF NextRaises(st.df, T_STATISTISCHE) THEN Raise(st)
    ELSE LET P == ColPositions(st.df, NextColumn(st.df, T_STATISTISCHE)) IN
         IF Cardinality(P) # 1 THEN Raise(st)
         ELSE LET p == CHOOSE q \in P : TRUE
                  NotNull == {r \in 1..Len(st.df.rows) : ~IsNaN(st.df.rows[r][p])}
                  Keep(r) == ~IsNaN(r[p]) /\ (IsTxt(r[p]) => Strip(r[p].s) # <<>>)
                  K == {r \in 1..Len(st.df.rows) : Keep(st.df.rows[r])}
              IN IF StrAccessorRaises(st.dtype[p],
                                      boolean_select(Column(st.df, p), NotNull))
                 THEN Raise(st)
                 ELSE [st EXCEPT !.pc = "discriminator",
                                 !.df.rows = boolean_select(@, K),
                                 !.src = boolean_select(@, K)]

\* df = df.applymap(lambda v: ... if isinstance(v, str) else v)
fz1_clean(st) ==
    [st EXCEPT !.pc = "clean",
               !.df = MapCells(st.df, 1..Len(st.df.columns), "clean")]

\* the number of leading text columns of the FZ1 parsers: num_cols = cols[2:]
FZ1_TEXT_COLS == 2

\* num_cols = cols[2:]
num_cols(st) == SubSeq(st.cols, FZ1_TEXT_COLS + 1, Len(st.cols))

\* the places df[num_cols] selects: by label
NumPositions(st) ==
    {p \in 1..Len(st.df.columns) : st.df.columns[p] \in Range(num_cols(st))}

\* df[num_cols] = df[num_cols].replace(...).apply(pd.to_numeric, errors='coerce');
\* a label of num_cols that df does not have is a KeyError
fz1_coerce(st) ==
    IF \E i \in 1..Len(num_cols(st)) : ColPositions(st.df, num_cols(st)[i]) = {}
    THEN Raise(st)
    ELSE [st EXCEPT !.pc = "coerce", !.touched = NumPositions(st),
                    !.df = MapCells(st.df, NumPositions(st), "coerce")]

\* the mutant: only the first numeric column is designated for the mask
fz1_mask_designated(st) ==
    [st EXCEPT !.pc = "returned",
               !.df = MapCells(st.df, {p \in NumPositions(st) :
                                          \A q \in NumPositions(st) : p <= q}, "mask")]

\* df[num_cols] = df[num_cols].mask(df[num_cols] == 0); return df
fz1_mask(st) ==
    [st EXCEPT !.pc = "returned", !.df = MapCells(st.df, NumPositions(st), "mask")]

\* the statement that follows the position pc
fz1_next(w, st) ==
    CASE st.pc = "start" -> fz1_frame(w, st)
      [] st.pc = "frame" -> fz1_ffill(st)
      [] st.pc = "ffill" -> fz1_trash(st)
      [] st.pc = "trash" -> fz1_ue(st)
      [] st.pc = "ue" -> fz1_discriminator(st)
      [] st.pc = "discriminator" -> fz1_clean(st)
      [] st.pc = "clean" -> fz1_coerce(st)
      [] st.pc = "coerce" -> fz1_mask(st)
      [] OTHER -> st

RECURSIVE fz1_run(_, _)
fz1_run(w, st) ==
    IF st.pc \in {"returned", "raised"} THEN st ELSE fz1_run(w, fz1_next(w, st))

\* parser(ws): the whole call
fz1_1(w) == fz1_run(w, ParserStart)
fz1_2(w) == fz1_run(w, ParserStart)

----------------------------------------------------------------------------
(* Worksheets of the model: four configured coordinates (the grouping column,
   the discriminator column and two numeric columns)                         *)

T_Land == <<"L", "a", "n", "d">>
T_Land1 == <<"L", "a", "n", "d", "1">>
T_Region == <<"R", "e", "g", "i", "o", "n">>
T_Statistische == <<"S", "t", "a", "t", "i", "s", "t", "i", "s", "c", "h", "e", "nl", "K", "z">>
T_Pkw == <<"P", "k", "w">>
T_Krad == <<"K", "r", "a", "d">>
T_Kraftrad == <<"K", "r", "a", "f", "t", "r", "a", "d">>
T_Kraeder == <<"K", "r", "a_uml", "d", "e", "r">>
T_A3B == <<"A", " ", " ", " ", "B">>
T_BAYERN == <<"B", "A", "Y", "E", "R", "N">>
T_HESSEN == <<"H", "E", "S", "S", "E", "N">>
T_Insgesamt == <<"I", "n", "s", "g", "e", "s", "a", "m", "t">>
T_MUENCHEN == <<"M", "u", "e", "n", "c", "h", "e", "n", " ", " ", "S", "t", "a", "d", "t">>
T_Code == <<"0", "9">>
T_Blank == <<" ", " ">>
T_German == <<"1", ".", "2", "3", "4", ",", "5", "6">>
T_Hyphen == <<"-">>
T_Dot == <<".">>
T_Twelve == <<"1", "2">>
T_FLENSBUERG == <<"F", "L", "E", "N", "S", "B", "U", "E", "R", "G">>
T_Statistische1 == <<"S", "t", "a", "t", "i", "s", "t", "i", "s", "c", "h", "e", "1">>
T_StatistischeKurz == <<"S", "t", "a", "t", "i", "s", "t", "i", "s", "c", "h", "e">>

H_ok == <<T_Land, T_Statistische, T_Pkw, T_Krad>>
\* a repeated header
H_dup == <<T_Land, T_Statistische, T_Pkw, T_Pkw>>
\* a header that equals another header plus the suffix _unique gives
H_clash == <<T_Land1, T_Statistische, T_Land, T_Land>>
\* a header with a run of three spaces
H_spaces == <<T_Land, T_Statistische, T_A3B, T_Krad>>
\* no header holds LAND
H_noland == <<T_Region, T_Statistische, T_Pkw, T_Krad>>
\* an empty header cell
H_none == <<None, T_Statistische, T_Pkw, T_Krad>>
\* a numeric header that differs from H_ok
H_div == <<T_Land, T_Statistische, T_Pkw, T_Kraftrad>>
\* an umlaut
H_uml == <<T_Land, T_Statistische, T_Pkw, T_Kraeder>>

\* the discriminator header differs from that of H_ok
H_kz1 == <<T_Land, T_Statistische1, T_Pkw, T_Krad>>

\* the discriminator header equals a later header plus the suffix _unique gives
H_disc == <<T_Land, T_Statistische1, T_StatistischeKurz, T_StatistischeKurz>>

HeaderPool == {H_ok, H_dup, H_clash, H_spaces, H_noland, H_none, H_div, H_uml, H_disc}

R_bayern == <<Txt(T_BAYERN), Txt(T_Code), Num(5, 0), Txt(T_German)>>
R_cont == <<NaN, Txt(T_Code), Num(0, 0), NaN>>
R_hessen == <<Txt(T_HESSEN), Txt(T_Blank), Num(7, 0), Txt(T_Hyphen)>>
R_total == <<Txt(T_Insgesamt), Txt(T_Code), Num(5, 0), Num(5, 0)>>
R_empty == <<NaN, NaN, NaN, NaN>>
R_nodisc == <<NaN, NaN, Num(3, 0), Txt(T_Dot)>>
R_city == <<Txt(T_MUENCHEN), Txt(T_Code), Txt(T_Twelve), Num(0, 0)>>
\* a row that holds nothing but the number 0
R_zero == <<NaN, NaN, Num(0, 0), Num(0, 0)>>
R_flens == <<Txt(T_FLENSBUERG), Txt(T_Code), Num(5, 0), Num(5, 0)>>

RowPool == {R_bayern, R_cont, R_hessen, R_total, R_empty, R_nodisc, R_city}

\* the data the header variants are run on
SampleData ==
    { <<R_bayern, R_cont, R_hessen>>,
      <<R_cont, R_city, R_total, R_cont>>,
      <<R_nodisc, R_bayern>>,
      <<R_flens, R_cont>> }

Worksheets ==
    {[hdr |-> H_ok, data |-> d] : d \in SeqUpTo(RowPool, MaxRows)}
    \cup {[hdr |-> h, data |-> d] : h \in HeaderPool, d \in SampleData}

EmptySheet == [hdr |-> <<>>, data |-> <<>>]

IdleParser == ws = EmptySheet /\ ps = ParserStart

InitParser == ws \in Worksheets /\ ps = ParserStart

\* the statement at position pc of the parser
ParserStep(label) ==
    /\ ps.pc = label
    /\ ps' = fz1_next(ws, ps)
    /\ UNCHANGED <<ws, uniqueVars, coerceVars, notebookVars, uploadVars, headerVars>>

----------------------------------------------------------------------------
(* The FZ1 notebook: directories, workbooks, accumulation, export *)

DATA_DIR == <<"..", "data", "raw", "fz1">>
OUT_DIR == <<"..", "data", "raw", "fz1", "csv">>
DST_DIR == <<"..", "data", "processed", ",">>

\* Path.mkdir(parents=True, exist_ok=True): the directory and its ancestors
mkdir_parents(ds, path) == ds \cup {SubSeq(path, 1, k) : k \in 1..Len(path)}

\* the characters of file names, in code-point order
CodePoints == <<".", "0", "1", "2", "3", "4", "5", "6", "7", "8", "9", "_",
                "a", "b", "c", "d", "e", "f", "g", "h", "i", "j", "k", "l", "m",
                "n", "o", "p", "q", "r", "s", "t", "u", "v", "w", "x", "y", "z">>
CodePoint(c) == CHOOSE i \in 1..Len(CodePoints) : CodePoints[i] = c

\* a < b as Python compares strings
RECURSIVE StrLess(_, _)
StrLess(a, b) ==
    IF b = <<>> THEN FALSE
    ELSE IF a = <<>> THEN TRUE
    ELSE IF Head(a) = Head(b) THEN StrLess(Tail(a), Tail(b))
    ELSE CodePoint(Head(a)) < CodePoint(Head(b))

\* sorted(paths)
RECURSIVE sorted(_)
sorted(S) ==
    IF S = {} THEN <<>>
    ELSE LET lo == CHOOSE x \in S : \A y \in S \ {x} : StrLess(x, y)
         IN <<lo>> \o sorted(S \ {lo})

T_fz1_ == <<"f", "z", "1", "_">>
T_xlsx == <<".", "x", "l", "s", "x">>
T_f2020 == <<"f", "z", "1", "_", "2", "0", "2", "0", ".", "x", "l", "s", "x">>
T_f2021 == <<"f", "z", "1", "_", "2", "0", "2", "1", ".", "x", "l", "s", "x">>
T_f2022 == <<"f", "z", "1", "_", "2", "0", "2", "2", ".", "x", "l", "s", "x">>
T_other == <<"f", "z", "2", "_", "2", "0", "2", "0", ".", "x", "l", "s", "x">>
T_fnew == <<"f", "z", "1", "_", "n", "e", "w", ".", "x", "l", "s", "x">>
T_FZ == <<"F", "Z">>
T_Sheet11 == <<"F", "Z", " ", "1", ".", "1">>
T_Sheet12 == <<"f", "z", "1", ".", "2", " ">>
T_Sheet12b == <<"F", "Z", " ", "1", ".", "2">>
T_Cover == <<"D", "e", "c", "k", "b", "l", "a", "t", "t">>
T_Sheet110 == <<"F", "Z", " ", "1", ".", "1", "0">>

\* DATA_DIR.glob("fz1_*.xlsx") on the names of a directory
GlobFz1(names) ==
    {n \in names : /\ Len(n) >= Len(T_fz1_) + Len(T_xlsx)
                   /\ SubSeq(n, 1, Len(T_fz1_)) = T_fz1_
                   /\ SubSeq(n, Len(n) - Len(T_xlsx) + 1, Len(n)) = T_xlsx}

\* re.search(r"(\d{4})", p.name): where the first run of four digits starts
FourDigitStarts(n) ==
    {i \in 1..(Len(n) - 3) : \A k \in 0..3 : n[i + k] \in DigitSet}
DateRaises(n) == FourDigitStarts(n) = {}
\* _date_from_fname(p)
_date_from_fname(n) == SubSeq(n, Min(FourDigitStarts(n)), Min(FourDigitStarts(n)) + 3)

\* whether re.compile(fr"^FZ\s*1\.{num}$", IGNORECASE).match(name.strip())
SheetNameMatches(name, num) ==
    LET u == Upper(Strip(name)) IN
    /\ Len(u) >= Len(T_FZ)
    /\ SubSeq(u, 1, Len(T_FZ)) = T_FZ
    /\ LStrip(SubSeq(u, Len(T_FZ) + 1, Len(u))) = <<"1", ".">> \o num

\* _find_sheet(wb, num): the place of the first matching sheet, 0 for None
_find_sheet(wb, num) ==
    LET hits == {i \in 1..Len(wb) : SheetNameMatches(wb[i].name, num)}
    IN IF hits = {} THEN 0 ELSE Min(hits)

\* sheet_parsers, in the order of the dict
SheetNums == << <<"1">>, <<"2">> >>
Nums == Range(SheetNums)
parser(num, w) == IF num = <<"1">> THEN fz1_1(w) ELSE fz1_2(w)

\* the mutant: DATE is put behind the parsed columns
InsertDate_last(df, date) ==
    [columns |-> df.columns \o <<T_DATE>>,
     rows |-> [r \in 1..Len(df.rows) |-> df.rows[r] \o <<Txt(date)>>]]

\* df.insert(0, "DATE", date)
InsertDate(df, date) ==
    [columns |-> <<T_DATE>> \o df.columns,
     rows |-> [r \in 1..Len(df.rows) |-> <<Txt(date)>> \o df.rows[r]]]

\* the labels of b that a does not have, in b's order
RECURSIVE NewLabels(_, _)
NewLabels(a, b) ==
    IF b = <<>> THEN <<>>
    ELSE IF Head(b) \in Range(a) THEN NewLabels(a, Tail(b))
    ELSE <<Head(b)>> \o NewLabels(Append(a, Head(b)), Tail(b))

\* the rows of df under the labels ls: a label df does not have is missing
\* in every row
Realign(ls, df) ==
    [r \in 1..Len(df.rows) |->
        [p \in 1..Len(ls) |->
            IF ColPositions(df, ls[p]) = {} THEN NaN
            ELSE df.rows[r][Min(ColPositions(df, ls[p]))]]]

\* the mutant: the new block is put in front
pd_concat_new_first(a, b) ==
    LET ls == b.columns \o NewLabels(b.columns, a.columns)
    IN [columns |-> ls, rows |-> Realign(ls, b) \o Realign(ls, a)]

\* pd.concat([a, b], ignore_index=True): the union of the columns in the order
\* of appearance, the rows of a and then the rows of b
pd_concat(a, b) ==
    LET ls == a.columns \o NewLabels(a.columns, b.columns)
    IN [columns |-> ls, rows |-> Realign(ls, a) \o Realign(ls, b)]

\* a column of dtype object: one that holds a text
IsObjectColumn(df, p) == \E r \in 1..Len(df.rows) : IsTxt(df.rows[r][p])

\* the mutant: every column is filled
fillna_every_column(df) == MapCells(df, 1..Len(df.columns), "fillna")

\* obj_cols = df.select_dtypes(include="object").columns;
\* df[obj_cols] = df[obj_cols].fillna("")
fillna_object(df) ==
    MapCells(df, {p \in 1..Len(df.columns) : IsObjectColumn(df, p)}, "fillna")

\* one field of a CSV line: a missing value is written as the empty field
CsvField(v) ==
    CASE IsTxt(v) -> v.s
      [] IsNum(v) -> NumStr(v.m, v.e)
      [] OTHER -> <<>>

\* df.to_csv(path, index=False): the header line and one line per row
to_csv(df) ==
    [exists |-> TRUE,
     lines |-> <<[p \in 1..Len(df.columns) |-> PyStr(df.columns[p])]>>
               \o [r \in 1..Len(df.rows) |->
                      [p \in 1..Len(df.rows[r]) |-> CsvField(df.rows[r][p])]]]

NoFile == [exists |-> FALSE, lines |-> <<>>]
\* what an earlier run of some version of the notebook left behind
StaleFile == [exists |-> TRUE, lines |-> << <<T_DATE>>, <<<<"o", "l", "d">>>> >>]

ArtifactDirs == {OUT_DIR, DST_DIR}
ArtifactPaths == ArtifactDirs \X Nums

DataA == <<R_bayern, R_cont, R_hessen>>
DataB == <<R_city, R_total, R_cont>>
\* the first data row is empty
DataC == <<R_empty, R_bayern, R_cont>>
\* the first data row holds zeros only
DataZ == <<R_zero, R_bayern>>

WB_full == << [name |-> T_Cover, hdr |-> <<>>, data |-> <<>>],
              [name |-> T_Sheet11, hdr |-> H_ok, data |-> DataA],
              [name |-> T_Sheet12, hdr |-> H_ok, data |-> DataB] >>
\* no sub-sheet 1.2 (FZ 1.10 is another sheet)
WB_no2 == << [name |-> T_Sheet11, hdr |-> H_ok, data |-> DataC],
             [name |-> T_Sheet110, hdr |-> H_ok, data |-> DataA] >>
\* a numeric header of sub-sheet 1.1 and a text header of sub-sheet 1.2 differ
\* from the other workbooks
WB_div == << [name |-> T_Sheet11, hdr |-> H_div, data |-> DataA],
             [name |-> T_Sheet12b, hdr |-> H_kz1, data |-> DataZ] >>
\* sub-sheet 1.2 has no LAND header: fz1_2 raises
WB_bad == << [name |-> T_Sheet11, hdr |-> H_ok, data |-> DataA],
             [name |-> T_Sheet12b, hdr |-> H_noland, data |-> DataA] >>

WorkbookPool == {WB_full, WB_no2, WB_div, WB_bad}
FileNames == {T_f2020, T_f2021, T_f2022, T_fnew, T_other}

NoWorkbooks == [n \in {} |-> WB_full]
NoFrames == [n \in {} |-> EmptyFrame]
NoBlocks == [num \in Nums |-> <<>>]

\* the paths the loops of the notebook walk
Paths == sorted(GlobFz1(DOMAIN files))

AtCell(c) == [cell |-> c, file |-> 0, num |-> 0]

InitNotebook ==
    /\ \E withData \in BOOLEAN, withDst \in BOOLEAN :
         /\ dirs = {SubSeq(DATA_DIR, 1, k) : k \in 1..3}
                   \cup (IF withData THEN {DATA_DIR, OUT_DIR} ELSE {})
                   \cup (IF withDst THEN {DST_DIR} ELSE {})
         /\ IF withData
            THEN \E S \in SUBSET FileNames :
                   /\ files \in [S -> WorkbookPool]
                   \* the workbook of a name without a date, or of a name
                   \* the glob leaves out, is never parsed
                   /\ \A n \in S : (DateRaises(n) \/ n \notin GlobFz1(S))
                                      => files[n] = WB_full
            ELSE files = NoWorkbooks
    /\ \E stale \in BOOLEAN :
         artifacts = [a \in ArtifactPaths |->
                         IF stale /\ a[1] \in dirs THEN StaleFile ELSE NoFile]
    /\ globals_by_sheet = NoFrames
    /\ pc = AtCell("idle")
    /\ run = 0
    /\ hadDataDir = TRUE
    /\ written = {}
    /\ firstExport = NoFile
    /\ blocks = NoBlocks
    /\ issues = <<>>
    /\ log = <<>>

IdleNotebook ==
    /\ dirs = {}
    /\ files = NoWorkbooks
    /\ artifacts = [a \in ArtifactPaths |-> NoFile]
    /\ globals_by_sheet = NoFrames
    /\ pc = AtCell("off")
    /\ run = 0
    /\ hadDataDir = TRUE
    /\ written = {}
    /\ firstExport = NoFile
    /\ blocks = NoBlocks
    /\ issues = <<>>
    /\ log = <<>>

\* the notebook is run from its first cell (again, after it ended or failed)
RunAll ==
    /\ pc.cell \in {"idle", "done", "failed"}
    /\ run < MaxRuns
    /\ run' = run + 1
    /\ pc' = AtCell("setup")
    /\ hadDataDir' = (DATA_DIR \in dirs)
    /\ written' = {}
    /\ blocks' = NoBlocks
    /\ log' = <<>>
    /\ UNCHANGED <<dirs, files, artifacts, globals_by_sheet, firstExport, issues,
                   otherVars>>

\* cell 1: OUT_DIR.mkdir(parents=True, exist_ok=True); DST_DIR.mkdir(...)
Setup ==
    /\ pc.cell = "setup"
    /\ dirs' = mkdir_parents(mkdir_parents(dirs, OUT_DIR), DST_DIR)
    /\ pc' = AtCell("layout")
    /\ UNCHANGED <<files, artifacts, globals_by_sheet, run, hadDataDir, written,
                   firstExport, blocks, issues, log, otherVars>>

\* header_map[num] and data_start_row[num] against the rows the parsers read
\* (_col(ws, letter, 10, 500)): the data rows of a worksheet of the model
\* start at row FirstDataRow
data_start_row == 10
FirstDataRow == 10

\* names = [_clean_header(ws[c].value) for c in coords]
HeaderNamesOf(w) == [i \in 1..Len(w.hdr) |-> _clean_header(w.hdr[i])]

\* bool(value) of a cell value
Truthy(v) == (IsTxt(v) /\ v.s # <<>>) \/ (IsNum(v) /\ v.m # 0)

\* any(ws[f"{c[0]}{r0}"].value for c in coords)
AnyInStartRow(w) ==
    LET r == data_start_row - FirstDataRow + 1 IN
    /\ r \in 1..Len(w.data)
    /\ \E p \in 1..Len(w.hdr) : Truthy(w.data[r][p])

NoReference == [found |-> FALSE, names |-> <<>>, file |-> <<>>]
Issue(path, num, kind, names, ref) ==
    [file |-> path, num |-> num, kind |-> kind, names |-> names,
     ref_names |-> ref.names, ref_file |-> ref.file]

\* the mutant: every file becomes the reference of the next one
layout_body_compare_previous(st, path, num) ==
    LET wb == files[path]
        at == _find_sheet(wb, num)
    IN IF at = 0
       THEN [st EXCEPT !.issues = Append(@, Issue(path, num, "not found", <<>>, NoReference))]
       ELSE LET names == HeaderNamesOf(wb[at])
                cmp == IF st.ref.found /\ names # st.ref.names
                       THEN Append(st.issues, Issue(path, num, "headers", names, st.ref))
                       ELSE st.issues
            IN [ref |-> [found |-> TRUE, names |-> names, file |-> path],
                issues |-> IF AnyInStartRow(wb[at]) THEN cmp
                           ELSE Append(cmp, Issue(path, num, "empty row", <<>>, NoReference))]

\* the body of the inner loop of check_fz1_layout for one path
layout_body(st, path, num) ==
    LET wb == files[path]
        at == _find_sheet(wb, num)
    IN IF at = 0
       THEN [st EXCEPT !.issues = Append(@, Issue(path, num, "not found", <<>>, NoReference))]
       ELSE LET names == HeaderNamesOf(wb[at])
                ref == IF st.ref.found THEN st.ref
                       ELSE [found |-> TRUE, names |-> names, file |-> path]
                cmp == IF st.ref.found /\ names # st.ref.names
                       THEN Append(st.issues, Issue(path, num, "headers", names, st.ref))
                       ELSE st.issues
            IN [ref |-> ref,
                issues |-> IF AnyInStartRow(wb[at]) THEN cmp
                           ELSE Append(cmp, Issue(path, num, "empty row", <<>>, NoReference))]

\* for path in sorted(DATA_DIR.glob("fz1_*.xlsx")): ...
RECURSIVE layout_paths(_, _, _)
layout_paths(st, ps_, num) ==
    IF ps_ = <<>> THEN st
    ELSE layout_paths(layout_body(st, Head(ps_), num), Tail(ps_), num)

\* for num, coords in header_map.items(): ref_names = None; ...
RECURSIVE layout_nums(_, _)
layout_nums(iss, nums) ==
    IF nums = <<>> THEN iss
    ELSE layout_nums(layout_paths([ref |-> NoReference, issues |-> iss],
                                  Paths, Head(nums)).issues,
                     Tail(nums))

\* the mutant: discrepancies stop the notebook
check_fz1_layout_gate ==
    /\ pc.cell = "layout"
    /\ issues' = layout_nums(<<>>, SheetNums)
    /\ pc' = IF issues' = <<>> THEN AtCell("init") ELSE AtCell("failed")
    /\ UNCHANGED <<dirs, files, artifacts, globals_by_sheet, run, hadDataDir, written,
                   firstExport, blocks, log, otherVars>>

\* cell 5: check_fz1_layout(): the list of discrepancies is built and printed
check_fz1_layout ==
    /\ pc.cell = "layout"
    /\ issues' = layout_nums(<<>>, SheetNums)
    /\ pc' = AtCell("init")
    /\ UNCHANGED <<dirs, files, artifacts, globals_by_sheet, run, hadDataDir, written,
                   firstExport, blocks, log, otherVars>>

\* the mutant: the accumulators are created only when there are none yet
InitAccumulators_keep ==
    /\ pc.cell = "init"
    /\ globals_by_sheet' = IF DOMAIN globals_by_sheet = Nums THEN globals_by_sheet
                           ELSE [num \in Nums |-> EmptyFrame]
    /\ pc' = [cell |-> "loop", file |-> 1, num |-> 1]
    /\ UNCHANGED <<dirs, files, artifacts, run, hadDataDir, written, firstExport,
                   blocks, issues, log, otherVars>>

\* cell 6: globals_by_sheet = {num: pd.DataFrame() for num in sheet_parsers}
InitAccumulators ==
    /\ pc.cell = "init"
    /\ globals_by_sheet' = [num \in Nums |-> EmptyFrame]
    /\ pc' = [cell |-> "loop", file |-> 1, num |-> 1]
    /\ UNCHANGED <<dirs, files, artifacts, run, hadDataDir, written, firstExport,
                   blocks, issues, log, otherVars>>

\* the position after the body for (file, num)
AfterSheet(f, n) ==
    IF n < Len(SheetNums) THEN [cell |-> "loop", file |-> f, num |-> n + 1]
    ELSE [cell |-> "loop", file |-> f + 1, num |-> 1]

\* the mutant: a workbook without the sub-sheet ends the loop
sheet_not_found_stops(path, num) ==
    /\ log' = Append(log, [file |-> path, num |-> num])
    /\ pc' = AtCell("export")
    /\ UNCHANGED <<globals_by_sheet, blocks>>

\* if not sn: print(f"{path.name}: workbook 1.{num} not found"); continue
sheet_not_found(path, num) ==
    /\ log' = Append(log, [file |-> path, num |-> num])
    /\ pc' = AfterSheet(pc.file, pc.num)
    /\ UNCHANGED <<globals_by_sheet, blocks>>

\* cell 7, one pass of the inner loop body for the path pc.file and the
\* sub-sheet pc.num (load_workbook and _date_from_fname come before the first)
Accumulate ==
    /\ pc.cell = "loop"
    /\ pc.file <= Len(Paths)
    /\ LET path == Paths[pc.file]
           wb == files[path]
           num == SheetNums[pc.num]
           at == _find_sheet(wb, num)
       IN IF DateRaises(path)
          THEN /\ pc' = AtCell("failed")
               /\ UNCHANGED <<globals_by_sheet, blocks, log>>
          ELSE IF at = 0
          THEN sheet_not_found(path, num)
          ELSE \E res \in {parser(num, wb[at])} :
               IF res.pc = "raised"
               THEN /\ pc' = AtCell("failed")
                    /\ UNCHANGED <<globals_by_sheet, blocks, log>>
               ELSE /\ globals_by_sheet' =
                         [globals_by_sheet EXCEPT ![num] =
                             pd_concat(@, InsertDate(res.df, _date_from_fname(path)))]
                    /\ blocks' = [blocks EXCEPT ![num] =
                                     Append(@, [path |-> path, df |-> res.df])]
                    /\ pc' = AfterSheet(pc.file, pc.num)
                    /\ UNCHANGED log
    /\ UNCHANGED <<dirs, files, artifacts, run, hadDataDir, written, firstExport,
                   issues, otherVars>>

\* cell 7 is executed again by hand, after it or cell 8 has finished, without
\* cell 6 being executed again
AccumulateAgain ==
    /\ pc.cell \in {"export", "done"}
    /\ Paths # <<>>
    /\ \A num \in Nums :
          Len(blocks[num]) <= (MaxPasses - 1)
                                * Cardinality({i \in 1..Len(Paths) :
                                                  _find_sheet(files[Paths[i]], num) # 0})
    /\ pc' = [cell |-> "loop", file |-> 1, num |-> 1]
    /\ UNCHANGED <<dirs, files, artifacts, globals_by_sheet, run, hadDataDir,
                   written, firstExport, blocks, issues, log, otherVars>>

\* the mutant: the loop ends after the first file
LoopEnds_after_first ==
    /\ pc.cell = "loop"
    /\ pc.file > Min({1, Len(Paths)})
    /\ pc' = AtCell("export")
    /\ UNCHANGED <<dirs, files, artifacts, globals_by_sheet, run, hadDataDir,
                   written, firstExport, blocks, issues, log, otherVars>>

\* cell 7 ends when the paths are used up
LoopEnds ==
    /\ pc.cell = "loop"
    /\ pc.file > Len(Paths)
    /\ pc' = AtCell("export")
    /\ UNCHANGED <<dirs, files, artifacts, globals_by_sheet, run, hadDataDir,
                   written, firstExport, blocks, issues, log, otherVars>>

\* the mutant: the lines are appended to the file that is there
Export_append ==
    /\ pc.cell = "export"
    /\ globals_by_sheet' = [num \in Nums |-> fillna_object(globals_by_sheet[num])]
    /\ artifacts' = [a \in ArtifactPaths |->
                        [exists |-> TRUE,
                         lines |-> artifacts[a].lines
                                   \o to_csv(globals_by_sheet'[a[2]]).lines]]
    /\ written' = written \cup ArtifactPaths
    /\ firstExport' = IF firstExport = NoFile
                      THEN [exists |-> TRUE, lines |-> artifacts'] ELSE firstExport
    /\ pc' = AtCell("done")
    /\ UNCHANGED <<dirs, files, run, hadDataDir, blocks, issues, log, otherVars>>

\* cell 8: for every accumulator, fill the text columns in place and write
\* the frame to OUT_DIR and to DST_DIR
Export ==
    /\ pc.cell = "export"
    /\ globals_by_sheet' = [num \in Nums |-> fillna_object(globals_by_sheet[num])]
    /\ artifacts' = [a \in ArtifactPaths |-> to_csv(globals_by_sheet'[a[2]])]
    /\ written' = written \cup ArtifactPaths
    /\ firstExport' = IF firstExport = NoFile
                      THEN [exists |-> TRUE, lines |-> artifacts'] ELSE firstExport
    /\ pc' = AtCell("done")
    /\ UNCHANGED <<dirs, files, run, hadDataDir, blocks, issues, log, otherVars>>

----------------------------------------------------------------------------
(* The upload notebook: numeric preprocessing in place, bulk upload *)

T_csv == <<".", "c", "s", "v">>
T_handelsnamen == <<"_", "h", "a", "n", "d", "e", "l", "s", "n", "a", "m", "e", "n",
                    "_", "p", "k", "w", ".", "c", "s", "v">>
T_modellreihen == <<"_", "m", "o", "d", "e", "l", "l", "r", "e", "i", "h", "e", "n",
                    ".", "c", "s", "v">>
T_Fz8 == <<"F", "z", "-", "8", ".", "c", "s", "v">>
T_fz_8 == <<"f", "z", "_", "8", ".", "c", "s", "v">>
T_readme == <<"r", "e", "a", "d", "m", "e", ".", "t", "x", "t">>

\* a path under data_dir: the sub-folder and the file name
PathOf(parent, name) == [parent |-> parent, name |-> name]

\* FILES and KEEP_TEXT of the preprocessing cell; its DATA_DIR is the
\* sub-folder "," of ../data/processed
FILES == <<T_handelsnamen, T_modellreihen>>
KEEP_TEXT == 5
PreprocessDir == ","

\* pd.read_csv(path, dtype=str) on one field: the empty field is missing
ReadField(f) == IF f = <<>> THEN NaN ELSE Txt(f)
read_csv_str(file) ==
    [columns |-> file.columns,
     rows |-> [r \in 1..Len(file.rows) |->
                  [p \in 1..Len(file.rows[r]) |-> ReadField(file.rows[r][p])]]]

\* pd.read_csv(csv_path, sep=sep, engine="python", ...) of the bulk upload:
\* a column whose fields are all numbers or empty is numeric, any other
\* column keeps its text
read_csv_infer(file) ==
    LET raw == read_csv_str(file)
        numeric == {p \in 1..Len(raw.columns) :
                       \A r \in 1..Len(raw.rows) :
                          \/ IsNaN(raw.rows[r][p])
                          \/ IsNum(to_numeric(raw.rows[r][p]))}
    IN [columns |-> raw.columns,
        rows |-> [r \in 1..Len(raw.rows) |->
                     [p \in 1..Len(raw.columns) |->
                         IF p \in numeric THEN to_numeric(raw.rows[r][p])
                         ELSE raw.rows[r][p]]]]

\* df.columns.str.contains(r"ZS\s|\sZS", case=False, regex=True) on one name
IsZS(c) ==
    \E w \in Whitespace : \/ Contains(Upper(c), <<"Z", "S", w>>)
                          \/ Contains(Upper(c), <<w, "Z", "S">>)

\* df.columns = df.columns.str.strip(); df = df.loc[:, ~zs_mask]
drop_zs(df) ==
    LET names == [p \in 1..Len(df.columns) |-> Strip(df.columns[p])]
        K == {p \in 1..Len(names) : ~IsZS(names[p])}
    IN [columns |-> boolean_select(names, K),
        rows |-> [r \in 1..Len(df.rows) |-> boolean_select(df.rows[r], K)]]

\* the text _to_float hands to pd.to_numeric
upload_text(v) ==
    LET stripped == IF IsTxt(v) THEN Txt(Strip(v.s)) ELSE v
        masked == IF IsTxt(stripped) /\ (stripped.s \in Dashes \/ stripped.s = <<".">>)
                  THEN NaN ELSE stripped
    IN UnGerman(masked)

\* the dtype pd.to_numeric gives a column: int64 when every cell is the text
\* of an integer, float64 otherwise
NumericDtype(col) ==
    IF \A i \in 1..Len(col) :
          LET u == upload_text(col[i])
          IN IsTxt(u) /\ IsFloatText(u.s) /\ ~Contains(u.s, <<".">>)
    THEN "int64" ELSE "float64"

\* one field of df.to_csv for a cell of a column of the dtype dt
WriteField(dt, v) ==
    CASE IsTxt(v) -> v.s
      [] IsNum(v) /\ dt = "float64" -> AsStrFloat(v).s
      [] IsNum(v) -> NumStr(v.m, v.e)
      [] OTHER -> <<>>

\* numeric_cols = df.columns[KEEP_TEXT:]
NumericPlaces(df) == (KEEP_TEXT + 1)..Len(df.columns)

\* for col in numeric_cols: df[col] = _to_float(df[col])
to_float_columns(df) ==
    [columns |-> df.columns,
     rows |-> [r \in 1..Len(df.rows) |->
                  [p \in 1..Len(df.columns) |->
                      IF p \in NumericPlaces(df) THEN to_float_upload(df.rows[r][p])
                      ELSE df.rows[r][p]]]]

\* the frame the body of the preprocessing loop holds when it writes the file
preprocessed(file) == to_float_columns(drop_zs(read_csv_str(file)))

\* df.to_csv(path, index=False, encoding="utf-8") of that frame
write_back(file) ==
    LET before == drop_zs(read_csv_str(file))
        df == to_float_columns(before)
    IN [columns |-> df.columns,
        rows |-> [r \in 1..Len(df.rows) |->
                     [p \in 1..Len(df.columns) |->
                         WriteField(IF p \in NumericPlaces(df)
                                    THEN NumericDtype(Column(before, p)) ELSE "object",
                                    df.rows[r][p])]]]

\* the paths `for fname in FILES` finds
PreprocessTargets ==
    {p \in DOMAIN processed : p.parent = PreprocessDir /\ p.name \in Range(FILES)}

\* the numbers of the numeric columns of a frame
NumbersOf(df) ==
    [r \in 1..Len(df.rows) |->
        [k \in 1..(Len(df.columns) - Min({KEEP_TEXT, Len(df.columns)})) |->
            df.rows[r][KEEP_TEXT + k]]]

\* Path.stem: the name up to its last dot
Stem(name) ==
    LET dots == {i \in 2..Len(name) : name[i] = "."}
    IN IF dots = {} THEN name ELSE SubSeq(name, 1, Max(dots) - 1)

\* str.lower(), character by character
LowerChar(c) == IF \E i \in 1..26 : UpperCase[i] = c
                THEN LowerCase[CHOOSE i \in 1..26 : UpperCase[i] = c] ELSE c
Lower(s) == [i \in 1..Len(s) |-> LowerChar(s[i])]

\* table_name = csv_path.stem.lower().replace("-", "_")
table_name(path) == Translate(Lower(Stem(path.name)), "-", "_")

\* data_dir.glob("*/*.csv")
GlobCsv(paths) ==
    {p \in paths : /\ Len(p.name) >= Len(T_csv)
                   /\ SubSeq(p.name, Len(p.name) - Len(T_csv) + 1, Len(p.name)) = T_csv}

\* the mutant: if_exists="append"
to_sql_append(tb, name, df, path) ==
    IF name \in DOMAIN tb
    THEN [tb EXCEPT ![name] = [source |-> path, columns |-> @.columns,
                               rows |-> @.rows \o df.rows]]
    ELSE (name :> [source |-> path, columns |-> df.columns, rows |-> df.rows]) @@ tb

\* df.to_sql(name=table_name, con=engine, schema=pg_schema,
\* if_exists="replace", index=False); the file the rows came from is kept
\* with the table
to_sql(tb, name, df, path) ==
    (name :> [source |-> path, columns |-> df.columns, rows |-> df.rows]) @@ tb

\* the CSV files of the model: five text columns and two columns of numbers
H_csv == << <<"a">>, <<"b">>, <<"c">>, <<"d">>, <<"e">>, <<"n">>, <<"m">> >>
\* a name with surrounding blanks and a column the notebook drops
H_csv_zs == << <<"a">>, <<"b">>, <<"c">>, <<"d">>, <<"e">>, <<"x", " ", "z", "s">>,
               <<" ", "n">>, <<"m">> >>
Five == << <<"x">>, <<"y">>, <<>>, <<"x">>, <<"y">> >>
\* a decimal comma and a plain integer
U_decimal == Five \o << <<"1", ",", "5">>, <<"5">> >>
\* a thousands point and a plain integer
U_thousand == Five \o << <<"1", ".", "2", "3", "4">>, <<"7">> >>
\* a dash and an empty field
U_missing == Five \o << <<"-">>, <<>> >>
CsvRowPool == {U_decimal, U_thousand, U_missing}
\* the row with a field for the column the notebook drops
WithDropped(row) ==
    SubSeq(row, 1, KEEP_TEXT) \o << <<"9">> >> \o SubSeq(row, KEEP_TEXT + 1, Len(row))
CsvFiles ==
    {[columns |-> H_csv, rows |-> d] : d \in SeqUpTo(CsvRowPool, MaxCsvRows)}
    \cup {[columns |-> H_csv_zs, rows |-> [r \in 1..Len(d) |-> WithDropped(d[r])]] :
             d \in SeqUpTo(CsvRowPool, MaxCsvRows)}
SmallCsv(tag) == [columns |-> << <<"k">> >>, rows |-> << <<tag>> >>]
OldTable == [source |-> PathOf(";", <<"o", "l", "d">>), columns |-> << <<"k">> >>,
             rows |-> << <<Txt(<<"o", "l", "d">>)>> >>]

NoCsv == [p \in {} |-> SmallCsv(<<>>)]
NoTables == [n \in {} |-> OldTable]

IdleUpload ==
    /\ processed = NoCsv
    /\ tables = NoTables
    /\ todo = {}
    /\ upc = "off"
    /\ uruns = 0
    /\ prepValues = <<>>

InitUpload ==
    /\ \E main \in CsvFiles, withHandel \in BOOLEAN, withTwin \in BOOLEAN,
          withHyphen \in BOOLEAN :
         processed =
             (PathOf(",", T_modellreihen) :> main)
             @@ (PathOf(",", T_fz_8) :> SmallCsv(<<"1">>))
             @@ (PathOf(";", T_readme) :> SmallCsv(<<"2">>))
             @@ (IF withHandel
                 THEN (PathOf(",", T_handelsnamen) :>
                          [columns |-> H_csv, rows |-> <<U_decimal>>])
                 ELSE NoCsv)
             @@ (IF withTwin THEN (PathOf(";", T_modellreihen) :> SmallCsv(<<"3">>))
                 ELSE NoCsv)
             @@ (IF withHyphen THEN (PathOf(";", T_Fz8) :> SmallCsv(<<"4">>))
                 ELSE NoCsv)
    /\ \E stale \in BOOLEAN :
         tables = IF stale THEN (table_name(PathOf(",", T_fz_8)) :> OldTable)
                  ELSE NoTables
    /\ todo = {}
    /\ upc = "preprocess"
    /\ uruns = 1
    /\ prepValues = <<>>

\* the preprocessing cell: every file of FILES that exists is read, converted
\* and written back
Preprocess ==
    /\ upc = "preprocess"
    /\ processed' = [p \in DOMAIN processed |->
                        IF p \in PreprocessTargets THEN write_back(processed[p])
                        ELSE processed[p]]
    /\ prepValues' = Append(prepValues,
                            [p \in PreprocessTargets |->
                                NumbersOf(preprocessed(processed[p]))])
    /\ upc' = "glob"
    /\ UNCHANGED <<tables, todo, uruns, uniqueVars, coerceVars, parserVars, notebookVars, headerVars>>

\* the bulk-upload cell starts: the paths the glob yields
BulkGlob ==
    /\ upc = "glob"
    /\ todo' = GlobCsv(DOMAIN processed)
    /\ upc' = "loop"
    /\ UNCHANGED <<processed, tables, uruns, prepValues,
                   uniqueVars, coerceVars, parserVars, notebookVars, headerVars>>

\* one pass of the bulk-upload loop; the glob yields the paths in the order
\* of the directory listing, which is any order
Upload ==
    /\ upc = "loop"
    /\ \E path \in todo :
         /\ tables' = to_sql(tables, table_name(path), read_csv_infer(processed[path]), path)
         /\ todo' = todo \ {path}
    /\ UNCHANGED <<processed, upc, uruns, prepValues,
                   uniqueVars, coerceVars, parserVars, notebookVars, headerVars>>

\* the bulk-upload loop ends when the paths are used up
BulkEnds ==
    /\ upc = "loop"
    /\ todo = {}
    /\ upc' = "done"
    /\ UNCHANGED <<processed, tables, todo, uruns, prepValues,
                   uniqueVars, coerceVars, parserVars, notebookVars, headerVars>>

\* the notebook is run again from the top
RunUploadAgain ==
    /\ upc = "done"
    /\ uruns < MaxUploadRuns
    /\ uruns' = uruns + 1
    /\ upc' = "preprocess"
    /\ UNCHANGED <<processed, tables, todo, prepValues,
                   uniqueVars, coerceVars, parserVars, notebookVars, headerVars>>

----------------------------------------------------------------------------
(* Specifications *)

\* _unique run on every header list of the bound
NextUnique == unique_step
InitSpecUnique == InitUnique /\ IdleCoerce /\ IdleParser /\ IdleNotebook /\ IdleUpload /\ IdleHeader
SpecUnique == InitSpecUnique /\ [][NextUnique]_vars

\* every coercer run on every token of the bound
NextCoerce ==
    \/ Coerce("upload")
    \/ Coerce("fz8")
    \/ Coerce("fz3")
    \/ Coerce("fz1")
InitSpecCoerce == InitCoerce /\ IdleUnique /\ IdleParser /\ IdleNotebook /\ IdleUpload /\ IdleHeader
SpecCoerce == InitSpecCoerce /\ [][NextCoerce]_vars

\* one call of the FZ1 parser on every worksheet of the bound, statement by
\* statement
NextParser ==
    \/ ParserStep("start")
    \/ ParserStep("frame")
    \/ ParserStep("ffill")
    \/ ParserStep("trash")
    \/ ParserStep("ue")
    \/ ParserStep("discriminator")
    \/ ParserStep("clean")
    \/ ParserStep("coerce")
InitSpecParser == InitParser /\ IdleUnique /\ IdleCoerce /\ IdleNotebook /\ IdleUpload /\ IdleHeader
SpecParser == InitSpecParser /\ [][NextParser]_vars

\* _clean_header called on every header text of the bound
NextHeader == CleanHeader
InitSpecHeader == InitHeader /\ IdleUnique /\ IdleCoerce /\ IdleParser /\ IdleNotebook /\ IdleUpload
SpecHeader == InitSpecHeader /\ [][NextHeader]_vars

\* the cells of the FZ1 notebook executed from top to bottom and the
\* accumulation cell executed again by hand, on two files
InitCells ==
    /\ InitNotebook
    /\ DOMAIN files \subseteq {T_f2020, T_f2021}
    /\ \A n \in DOMAIN files : files[n] \in {WB_full, WB_no2}
NextCells ==
    \/ RunAll
    \/ Setup
    \/ check_fz1_layout
    \/ InitAccumulators
    \/ Accumulate
    \/ AccumulateAgain
    \/ LoopEnds
    \/ Export
InitSpecCells == InitCells /\ IdleUnique /\ IdleCoerce /\ IdleParser /\ IdleUpload /\ IdleHeader
SpecCells == InitSpecCells /\ [][NextCells]_vars

\* the upload notebook run from top to bottom, up to MaxUploadRuns times, on
\* every content of ../data/processed of the bound
NextUpload ==
    \/ Preprocess
    \/ BulkGlob
    \/ Upload
    \/ BulkEnds
    \/ RunUploadAgain
InitSpecUpload == InitUpload /\ IdleUnique /\ IdleCoerce /\ IdleParser /\ IdleNotebook /\ IdleHeader
SpecUpload == InitSpecUpload /\ [][NextUpload]_vars

\* the FZ1 notebook run from top to bottom, up to MaxRuns times, on every
\* content of DATA_DIR of the bound
Next ==
    \/ RunAll
    \/ Setup
    \/ check_fz1_layout
    \/ InitAccumulators
    \/ Accumulate
    \/ LoopEnds
    \/ Export
Init == InitNotebook /\ IdleUnique /\ IdleCoerce /\ IdleParser /\ IdleUpload /\ IdleHeader
Spec == Init /\ [][Next]_vars

----------------------------------------------------------------------------
(* Claims about the FZ1 notebook as a whole *)

\* C1: when the whole notebook (accumulator initialisation, accumulation loop,
\* export) has run again on the same workbooks, every artifact is what the
\* first completed export wrote.
C1_RerunWritesTheSameArtifacts ==
    (pc.cell = "done" /\ firstExport.exists) => artifacts = firstExport.lines

\* a second run has exported series that hold data rows
C1_Witness ==
    /\ pc.cell = "done"
    /\ run = 2
    /\ firstExport.exists
    /\ \A a \in ArtifactPaths : Len(artifacts[a].lines) >= 3

\* the rows the blocks bs give, one block after the other, under the labels ls
RECURSIVE RowsOfBlocks(_, _)
RowsOfBlocks(ls, bs) ==
    IF bs = <<>> THEN <<>>
    ELSE Realign(ls, InsertDate(Head(bs).df, _date_from_fname(Head(bs).path)))
         \o RowsOfBlocks(ls, Tail(bs))

\* the frame the blocks of a sub-sheet make up
SeriesOfBlocks(num) ==
    [columns |-> globals_by_sheet[num].columns,
     rows |-> RowsOfBlocks(globals_by_sheet[num].columns, blocks[num])]

\* C2: the aggregated series of a sub-sheet is the blocks of the files one
\* after the other, the files in ascending order of their names and the rows of
\* a block as the parser returned them; the exported file has the same order.
C2_BlocksInSortedFilenameOrder ==
    \A num \in Nums :
        /\ \A i, j \in 1..Len(blocks[num]) :
               i < j => StrLess(blocks[num][i].path, blocks[num][j].path)
        /\ pc.cell \in {"loop", "export"} =>
               globals_by_sheet[num] = SeriesOfBlocks(num)
        /\ pc.cell = "done" =>
               artifacts[<<OUT_DIR, num>>] = to_csv(fillna_object(SeriesOfBlocks(num)))

\* the files of 2020, 2021 and 2022 have each given two rows to series 1.1
C2_Witness ==
    /\ pc.cell = "export"
    /\ Paths = <<T_f2020, T_f2021, T_f2022>>
    /\ Column(globals_by_sheet[<<"1">>], 1) =
           <<Txt(<<"2", "0", "2", "0">>), Txt(<<"2", "0", "2", "0">>),
             Txt(<<"2", "0", "2", "1">>), Txt(<<"2", "0", "2", "1">>),
             Txt(<<"2", "0", "2", "2">>), Txt(<<"2", "0", "2", "2">>)>>

C4_MissingInputDirStopsTheRun ==
    (run > 0 /\ ~hadDataDir) => (written = {} /\ pc.cell # "done")

----------------------------------------------------------------------------
(* Reading a token as German number formatting: an optional sign, digits
   (plain, or in groups of three separated by '.'), optionally ',' and decimals *)

GermanBody(s) == IF s # <<>> /\ Head(s) = "-" THEN Tail(s) ELSE s
GermanCommas(s) == {i \in 1..Len(GermanBody(s)) : GermanBody(s)[i] = ","}
GermanInt(s) ==
    LET b == GermanBody(s) IN
    IF GermanCommas(s) = {} THEN b
    ELSE SubSeq(b, 1, (CHOOSE i \in GermanCommas(s) : TRUE) - 1)
GermanFrac(s) ==
    LET b == GermanBody(s) IN
    IF GermanCommas(s) = {} THEN <<>>
    ELSE SubSeq(b, (CHOOSE i \in GermanCommas(s) : TRUE) + 1, Len(b))

Grouped(ip) ==
    LET n == Len(ip) IN
    /\ n % 4 # 0
    /\ \A p \in 1..n : IF (n - p) % 4 = 3 THEN ip[p] = "." ELSE ip[p] \in DigitSet

IsGerman(s) ==
    /\ Cardinality(GermanCommas(s)) <= 1
    /\ GermanInt(s) # <<>>
    /\ AllDigits(GermanInt(s)) \/ Grouped(GermanInt(s))
    /\ AllDigits(GermanFrac(s))
    /\ GermanCommas(s) # {} => GermanFrac(s) # <<>>

GermanValue(s) ==
    LET m == DigitsVal(Remove(GermanInt(s), {"."}) \o GermanFrac(s))
    IN Num(IF s # <<>> /\ Head(s) = "-" THEN 0 - m ELSE m, Len(GermanFrac(s)))

----------------------------------------------------------------------------
(* Claims *)

\* C5: every numeric coercer (upload, FZ8, FZ3, and the coercion step of the
\* FZ1 parsers) turns every German-formatted token into the intended number.
C5_EveryCoercerReadsGerman ==
    (coerced # Pending /\ IsTxt(token) /\ IsGerman(token.s))
        => coerced = GermanValue(token.s)

\* C6: numeric coercion is total and permissive: the result is a number or
\* missing, never an error; a lone hyphen, en dash, em dash or dot, the empty
\* string and every text that cannot parse (here: one without any digit)
\* yield missing.
C6_CoercionTotalPermissive ==
    coerced # Pending =>
        /\ IsNum(coerced) \/ IsNaN(coerced)
        /\ (IsTxt(token) /\ token.s \in Dashes \cup {<<".">>, <<>>}) => IsNaN(coerced)
        /\ (IsTxt(token) /\ \A i \in 1..Len(token.s) : token.s[i] \notin DigitSet)
               => IsNaN(coerced)
        /\ IsNaN(token) => IsNaN(coerced)

\* C6 witness: the upload coercer has turned an en dash into missing
C6_Witness ==
    coercer = "upload" /\ token = Txt(<<"endash">>) /\ coerced = NaN

\* C7: numeric coercion is applied only to columns at positions >= N (N = 2 in
\* the FZ1 parsers; positions counted from 0 in the claim, from 1 here): the N
\* leading text columns are never passed through numeric coercion.
C7_LeadingTextColumnsNeverCoerced ==
    ps.pc \in {"coerce", "returned"} => \A p \in ps.touched : p > FZ1_TEXT_COLS

\* C8: _unique keeps the first occurrence of a name and gives the k-th later
\* occurrence the suffix k; positions and length are unchanged.
C8_UniqueSuffixIsOccurrenceCount ==
    /\ Len(out) <= Len(cols)
    /\ \A i \in 1..Len(out) :
          LET k == Cardinality({j \in 1..(i - 1) : cols[j] = cols[i]}) IN
          out[i] = IF k = 0 THEN cols[i] ELSE PyStr(cols[i]) \o Decimal(k)

\* C8 witness: [X, X, Y, X] has become [X, X1, Y, X2]
C8_Witness ==
    /\ cols = << <<"X">>, <<"X">>, <<"Y">>, <<"X">> >>
    /\ unique_returned
    /\ out = << <<"X">>, <<"X", "1">>, <<"Y">>, <<"X", "2">> >>

\* C9: the list returned by _unique holds no two equal names.
C9_UniqueReturnsDistinctNames ==
    unique_returned =>
        \A i, j \in 1..Len(out) : i # j => out[i] # out[j]

\* C10: the forward-fill of the grouping (LAND) column gives every row whose
\* grouping cell is missing the value of the nearest preceding row whose
\* grouping cell is not missing, and changes nothing else.
C10_FfillTakesNearestPreceding ==
    ps.pc = "ffill" =>
        LET before == fz1_frame(ws, ParserStart).df
            P == ColPositions(before, NextColumn(before, T_LAND))
        IN /\ Len(ps.df.rows) = Len(before.rows)
           /\ \A r \in 1..Len(before.rows) : \A p \in 1..Len(before.columns) :
                 LET known == {j \in 1..r : ~IsNaN(before.rows[j][p])} IN
                 ps.df.rows[r][p] =
                     IF p \notin P THEN before.rows[r][p]
                     ELSE IF known = {} THEN NaN
                     ELSE before.rows[Max(known)][p]

\* C10 witness: [BAYERN, null, null, HESSEN] has become
\* [BAYERN, BAYERN, BAYERN, HESSEN]
C10_Witness ==
    /\ ps.pc = "ffill"
    /\ ws.data = <<R_bayern, R_cont, R_cont, R_hessen>>
    /\ Column(ps.df, 1) = <<Txt(T_BAYERN), Txt(T_BAYERN), Txt(T_BAYERN), Txt(T_HESSEN)>>

----------------------------------------------------------------------------
(* Claims about the row cleaner of fz1_1 / fz1_2 *)

\* the place of the grouping column (the first label that holds LAND) and of
\* the discriminator column (the first label that holds STATISTISCHE)
GroupingPos(df) == Min(Candidates(df, T_LAND))
DiscriminatorPos(df) == Min(Candidates(df, T_STATISTISCHE))

\* C11: after the trash filter no row is left whose forward-filled grouping
\* value holds, in any case of letters, one of INSGESAMT, HINWEIS, FLENSBURG,
\* REVIDIERT, SONSTIGE, and no row of the parser's result has a grouping value
\* that holds one of them.
C11_NoTrashKeywordInResult ==
    ps.pc \in {"trash", "returned"} =>
        \A r \in 1..Len(ps.df.rows) :
            ~IsTrash(AsStr(ps.df.rows[r][GroupingPos(ps.df)]))

\* C12: no row of the parser's result has a discriminator that is missing,
\* empty or only whitespace.
C12_NoBlankDiscriminatorInResult ==
    ps.pc = "returned" =>
        \A r \in 1..Len(ps.df.rows) :
            LET d == ps.df.rows[r][DiscriminatorPos(ps.df)] IN
            ~IsNaN(d) /\ (IsTxt(d) => Strip(d.s) # <<>>)

\* C13: when the first data row of the sheet has no grouping value, so that
\* the forward-fill leaves it missing, and the row is in the result, its
\* grouping value in the result is still the missing marker.
C13_LeadingNullGroupingStaysNull ==
    LET filled == fz1_ffill(fz1_frame(ws, ParserStart)) IN
    ( /\ ps.pc = "returned"
      /\ ps.src # <<>> /\ ps.src[1] = 1
      /\ filled.pc = "ffill"
      /\ IsNaN(filled.df.rows[1][GroupingPos(filled.df)]) )
        => IsNaN(ps.df.rows[1][GroupingPos(ps.df)])

IsZero(v) == IsNum(v) /\ v.m = 0

StrictlyIncreasing(q) == \A i, j \in 1..Len(q) : i < j => q[i] < q[j]
PlaceOf(q, x) == CHOOSE i \in 1..Len(q) : q[i] = x

\* C15: every step of the parser keeps the rows in the order of the sheet: the
\* frame starts as the rows of the sheet that are not empty, in their order;
\* the two filters only take rows out and leave the others as they are and
\* where they are relative to each other; the other steps keep every row in its
\* place.
C15_RowsStayInSheetOrder ==
    [][ (ps' # ps /\ ps'.pc # "raised")
        => /\ StrictlyIncreasing(ps'.src)
           /\ Len(ps'.src) = Len(ps'.df.rows)
           /\ ps.pc = "start" =>
                \A r \in 1..Len(ps'.src) :
                    /\ ps'.src[r] \in 1..Len(ws.data)
                    /\ ps'.df.rows[r] =
                          DataFrameOfDict(ps'.cols, ws.data).rows[ps'.src[r]]
           /\ ps.pc \in {"ffill", "ue"} =>
                \A r \in 1..Len(ps'.src) :
                    /\ ps'.src[r] \in Range(ps.src)
                    /\ ps'.df.rows[r] = ps.df.rows[PlaceOf(ps.src, ps'.src[r])]
           /\ ps.pc \in {"frame", "trash", "discriminator", "clean", "coerce"} =>
                ps'.src = ps.src
      ]_vars

\* the second of four rows was filtered out; the others are returned in order
C15_Witness ==
    /\ ps.pc = "returned"
    /\ ws = [hdr |-> H_ok, data |-> <<R_bayern, R_total, R_city, R_cont>>]
    /\ ps.src = <<1, 3, 4>>
    /\ Column(ps.df, 1) = <<Txt(T_BAYERN), Txt(<<"M", "U", "E", "N", "C", "H", "E", "N", " ", "S", "T", "A", "D", "T">>),
                            Txt(<<"M", "U", "E", "N", "C", "H", "E", "N", " ", "S", "T", "A", "D", "T">>)>>

(***************************************************************************)
(* Claims about the layout validator                                       *)
(***************************************************************************)

\* check_fz1_layout has just returned
LayoutChecked == pc.cell = "init"

SheetOf(path, num) == files[path][_find_sheet(files[path], num)]
HasSheet(path, num) == _find_sheet(files[path], num) # 0
PathSet == {Paths[i] : i \in 1..Len(Paths)}

\* every configured cell of the data-start row is empty
StartRowAllEmpty(w) ==
    LET r == data_start_row - FirstDataRow + 1 IN
    r \in 1..Len(w.data) => \A p \in 1..Len(w.hdr) : IsNaN(w.data[r][p])

\* the paths in which the sub-sheet is found, in sorted order
FoundIn(num) == LET Found(path) == HasSheet(path, num) IN SelectSeq(Paths, Found)

EverySheetPresentAndFilled ==
    \A path \in PathSet, num \in Nums :
        HasSheet(path, num) /\ ~StartRowAllEmpty(SheetOf(path, num))

DiffersFromReference(path, num) ==
    /\ HasSheet(path, num)
    /\ path # FoundIn(num)[1]
    /\ HeaderNamesOf(SheetOf(path, num)) # HeaderNamesOf(SheetOf(FoundIn(num)[1], num))

Differing == {pn \in PathSet \X Nums : DiffersFromReference(pn[1], pn[2])}

DiffersInOneValue(path, num) ==
    LET a == HeaderNamesOf(SheetOf(path, num))
        b == HeaderNamesOf(SheetOf(FoundIn(num)[1], num))
    IN Len(a) = Len(b) /\ Cardinality({i \in 1..Len(a) : a[i] # b[i]}) = 1

\* C16: when every file has both sub-sheets, a start row that is not empty and
\* the same header values, check_fz1_layout reports an empty list; when exactly
\* one file other than the reference differs from the reference in one header
\* value, the list holds exactly one entry and the entry names that file and
\* that sub-sheet.
C16_ConsistentFilesGiveEmptyListOneDifferenceOneEntry ==
    (LayoutChecked /\ EverySheetPresentAndFilled) =>
        /\ Differing = {} => issues = <<>>
        /\ \A pn \in Differing :
              (Differing = {pn} /\ DiffersInOneValue(pn[1], pn[2])) =>
                  /\ Len(issues) = 1
                  /\ issues[1].file = pn[1]
                  /\ issues[1].num = pn[2]

\* the header-mismatch entries of one sub-sheet, in the order they were added
MismatchesOf(num) ==
    LET Is(e) == e.kind = "headers" /\ e.num = num IN SelectSeq(issues, Is)
NotFoundOf(num) ==
    LET Is(e) == e.kind = "not found" /\ e.num = num IN SelectSeq(issues, Is)
Lacking(num) ==
    LET Lacks(path) == ~HasSheet(path, num) IN SelectSeq(Paths, Lacks)

\* C17: for each sub-sheet the reference is the header list of the first file
\* in sorted order in which the sub-sheet is found and it is never replaced: the
\* header-mismatch entries are, in order, exactly the later files whose header
\* list differs from that reference, each entry carries that reference, and a
\* file lacking the sub-sheet is reported and is never the reference.
C17_ReferenceIsFirstFoundFile ==
    LayoutChecked =>
        LET sortedPaths == Paths IN
        \A num \in Nums :
            LET Found(path) == HasSheet(path, num)
                found == SelectSeq(sortedPaths, Found)
                Lacks(path) == ~HasSheet(path, num)
                first == found[1]
                reference == HeaderNamesOf(SheetOf(first, num))
                Differs(path) == /\ HasSheet(path, num)
                                 /\ path # first
                                 /\ HeaderNamesOf(SheetOf(path, num)) # reference
                later == SelectSeq(sortedPaths, Differs)
                mismatches == MismatchesOf(num)
                notFound == NotFoundOf(num)
            IN /\ Len(mismatches) = Len(later)
               /\ \A i \in 1..Len(mismatches) :
                     /\ mismatches[i].file = later[i]
                     /\ mismatches[i].names = HeaderNamesOf(SheetOf(later[i], num))
                     /\ mismatches[i].ref_file = first
                     /\ mismatches[i].ref_names = reference
               /\ [i \in 1..Len(notFound) |-> notFound[i].file]
                      = SelectSeq(sortedPaths, Lacks)

\* the first file lacks sub-sheet 1.2, the second becomes the reference, the
\* third differs from it; in sub-sheet 1.1 two files in a row differ from the
\* first in the same way
C17_Witness ==
    /\ pc.cell = "init"
    /\ Paths = <<T_f2020, T_f2021, T_f2022>>
    /\ Lacking(<<"2">>) = <<T_f2020>>
    /\ Len(MismatchesOf(<<"2">>)) = 1
    /\ MismatchesOf(<<"2">>)[1].file = T_f2022
    /\ MismatchesOf(<<"2">>)[1].ref_file = T_f2021

\* C18: the entry "row is empty, first data row shifted?" is added for a file
\* and a sub-sheet exactly when every configured cell of the data-start row is
\* empty; a start row holding a value, the number 0 included, gives no entry.
C18_EmptyRowEntryIffStartRowEmpty ==
    LayoutChecked =>
        \A path \in PathSet, num \in Nums :
            HasSheet(path, num) =>
                ((\E i \in 1..Len(issues) :
                     /\ issues[i].kind = "empty row"
                     /\ issues[i].file = path
                     /\ issues[i].num = num)
                  <=> StartRowAllEmpty(SheetOf(path, num)))

\* C19: check_fz1_layout is purely diagnostic: the step that runs it changes
\* nothing but the list of discrepancies (the files, the directories, the
\* accumulators and the artifacts stay as they were) and the notebook goes on
\* to the extraction cells whatever the list holds.
C19_ValidatorOnlyReports ==
    [][pc.cell = "layout" =>
          /\ pc' = AtCell("init")
          /\ UNCHANGED <<dirs, files, artifacts, globals_by_sheet, run, hadDataDir,
                         written, firstExport, blocks, log>>]_vars

\* a run whose validator reported discrepancies has exported data rows
C19_Witness ==
    /\ pc.cell = "done"
    /\ issues # <<>>
    /\ ArtifactPaths \subseteq written
    /\ \E a \in ArtifactPaths : Len(artifacts[a].lines) >= 2

(***************************************************************************)
(* Claims about the accumulation loop                                      *)
(***************************************************************************)

BlockPaths(num) == {blocks[num][i].path : i \in 1..Len(blocks[num])}

\* C20: when a configured sub-sheet is absent from a workbook the loop logs
\* the file and the sub-sheet, leaves the accumulators as they are and goes on
\* with the next sub-sheet or file; when the loop ends every sub-sheet that a
\* file does hold has been parsed and accumulated.
C20_AbsentSheetIsLoggedAndSkipped ==
    [][/\ (/\ pc.cell = "loop"
           /\ pc.file <= Len(Paths)
           /\ ~DateRaises(Paths[pc.file])
           /\ ~HasSheet(Paths[pc.file], SheetNums[pc.num]))
          => /\ log' = Append(log, [file |-> Paths[pc.file], num |-> SheetNums[pc.num]])
             /\ globals_by_sheet' = globals_by_sheet
             /\ blocks' = blocks
             /\ pc' = AfterSheet(pc.file, pc.num)
       /\ (pc.cell = "loop" /\ pc'.cell = "export")
          => \A num \in Nums, path \in PathSet :
                 HasSheet(path, num) <=> path \in BlockPaths(num)]_vars

\* the first file lacks sub-sheet 1.2; its sub-sheet 1.1 and both sub-sheets
\* of the next file were accumulated
C20_Witness ==
    /\ pc.cell = "export"
    /\ Len(Paths) >= 2
    /\ log = <<[file |-> Paths[1], num |-> <<"2">>]>>
    /\ BlockPaths(<<"1">>) = PathSet
    /\ BlockPaths(<<"2">>) = PathSet \ {Paths[1]}
    /\ \A num \in Nums : Len(globals_by_sheet[num].rows) >= 1

\* the period tags the rows of the blocks bs are due, block after block
RECURSIVE DatesOfBlocks(_)
DatesOfBlocks(bs) ==
    IF bs = <<>> THEN <<>>
    ELSE [r \in 1..Len(Head(bs).df.rows) |-> Txt(_date_from_fname(Head(bs).path))]
         \o DatesOfBlocks(Tail(bs))

\* C21: when the accumulation loop has ended, DATE is the first column of
\* every aggregated series that has columns, and the first cell of every row is
\* the first run of four digits of the name of the file whose block the row
\* belongs to, so the rows of one block share one DATE.
C21_RowsCarryTheDateOfTheirFile ==
    pc.cell = "export" =>
        \A num \in Nums :
            LET df == globals_by_sheet[num] IN
            /\ df.columns # <<>> => df.columns[1] = T_DATE
            /\ Len(blocks[num]) > 0 => df.columns # <<>>
            /\ [r \in 1..Len(df.rows) |-> df.rows[r][1]] = DatesOfBlocks(blocks[num])

\* three files have given rows to series 1.2, each under its own year
C21_Witness ==
    /\ pc.cell = "export"
    /\ Len(blocks[<<"2">>]) = 3
    /\ \A k \in 1..3 : Len(blocks[<<"2">>][k].df.rows) >= 1
    /\ globals_by_sheet[<<"2">>].rows[1][1] = Txt(<<"2", "0", "2", "0">>)
    /\ globals_by_sheet[<<"2">>].rows[Len(globals_by_sheet[<<"2">>].rows)][1]
           = Txt(<<"2", "0", "2", "2">>)

(***************************************************************************)
(* Claims about the export                                                 *)
(***************************************************************************)

\* C22: after the export every artifact fz_1.<num>_raw.csv holds exactly the
\* lines of the accumulated series of its sub-sheet, whatever the file held
\* before, and the copy in the raw CSV directory equals the copy in the
\* processed directory.
C22_ArtifactIsTheCurrentSeries ==
    pc.cell = "done" =>
        \A num \in Nums :
            /\ artifacts[<<OUT_DIR, num>>] = to_csv(globals_by_sheet[num])
            /\ artifacts[<<DST_DIR, num>>] = artifacts[<<OUT_DIR, num>>]

\* a second export has replaced the artifacts of the first, which held rows
C22_Witness ==
    /\ pc.cell = "done"
    /\ run = 2
    /\ \A a \in ArtifactPaths :
          /\ firstExport.lines[a].exists
          /\ Len(firstExport.lines[a].lines) >= 2
          /\ Len(artifacts[a].lines) = Len(globals_by_sheet[a[2]].rows) + 1

\* the labels of the leading text columns and of the coerced columns of the
\* blocks of a sub-sheet
TextLabels(num) ==
    {T_DATE} \cup UNION {{blocks[num][k].df.columns[p] :
                             p \in 1..Min({FZ1_TEXT_COLS, Len(blocks[num][k].df.columns)})} :
                         k \in 1..Len(blocks[num])}
NumericLabels(num) ==
    UNION {{blocks[num][k].df.columns[p] :
               p \in (FZ1_TEXT_COLS + 1)..Len(blocks[num][k].df.columns)} :
           k \in 1..Len(blocks[num])}

\* C23: at export every missing value in a text column of an accumulated
\* series has become the empty string, and every cell of a numeric column is
\* what it was before: a missing value is still missing.
C23_TextFilledNumericLeftMissing ==
    pc.cell = "done" =>
        \A num \in Nums :
            LET df == globals_by_sheet[num]
                before == SeriesOfBlocks(num)
            IN \A p \in 1..Len(df.columns), r \in 1..Len(df.rows) :
                 /\ df.columns[p] \in TextLabels(num) =>
                        df.rows[r][p] = IF IsNaN(before.rows[r][p]) THEN Txt(<<>>)
                                        ELSE before.rows[r][p]
                 /\ df.columns[p] \in NumericLabels(num) =>
                        /\ df.rows[r][p] = before.rows[r][p]
                        /\ ~IsTxt(df.rows[r][p])

\* series 1.2 was exported with a text cell filled and a numeric cell missing
C23_Witness ==
    /\ pc.cell = "done"
    /\ LET df == globals_by_sheet[<<"2">>]
           before == SeriesOfBlocks(<<"2">>)
       IN \E r \in 1..Len(df.rows) :
            /\ \E p \in 1..Len(df.columns) :
                  /\ df.columns[p] \in TextLabels(<<"2">>)
                  /\ IsNaN(before.rows[r][p])
                  /\ df.rows[r][p] = Txt(<<>>)
            /\ \E p \in 1..Len(df.columns) :
                  /\ df.columns[p] \in NumericLabels(<<"2">>)
                  /\ IsNaN(df.rows[r][p])

(***************************************************************************)
(* Claims about the upload notebook                                        *)
(***************************************************************************)

\* the base name of a CSV file, lower-cased, every hyphen an underscore and
\* nothing else changed
ExpectedTableName(path) ==
    LET base == SubSeq(path.name, 1, Len(path.name) - Len(T_csv))
    IN [i \in 1..Len(base) |->
           IF base[i] = "-" THEN "_"
           ELSE IF base[i] \in Range(UpperCase) THEN LowerChar(base[i])
           ELSE base[i]]

\* C24: each pass of the bulk-upload loop loads one CSV file into the table
\* named by the file's base name, lower-cased and with every hyphen turned into
\* an underscore; afterwards the table holds the rows of that file and nothing
\* else, and every other table is as it was.
C24_TableNamedAfterFileAndReplaced ==
    [][(upc = "loop" /\ todo' # todo) =>
          \E path \in todo :
              LET name == ExpectedTableName(path) IN
              /\ todo' = todo \ {path}
              /\ DOMAIN tables' = DOMAIN tables \cup {name}
              /\ tables'[name].columns = processed[path].columns
              /\ tables'[name].rows = read_csv_infer(processed[path]).rows
              /\ \A other \in DOMAIN tables \ {name} : tables'[other] = tables[other]]_vars

\* a second run has loaded Fz-8.csv or fz_8.csv again into the table fz_8 that
\* the first run had made, and the table holds the one row of that file
C24_Witness ==
    /\ upc = "done"
    /\ uruns = 2
    /\ PathOf(";", T_Fz8) \in DOMAIN processed
    /\ <<"f", "z", "_", "8">> \in DOMAIN tables
    /\ Len(tables[<<"f", "z", "_", "8">>].rows) = 1

(***************************************************************************)
(* Claims about _clean_header                                              *)
(***************************************************************************)

\* the length of the run of spaces s starts with
RECURSIVE LeadingSpaces(_)
LeadingSpaces(s) == IF s # <<>> /\ Head(s) = " " THEN 1 + LeadingSpaces(Tail(s)) ELSE 0

\* s with every maximal run of n spaces turned into a run of ceil(n/2) spaces
RECURSIVE HalveRuns(_)
HalveRuns(s) ==
    IF s = <<>> THEN <<>>
    ELSE IF Head(s) # " " THEN <<Head(s)>> \o HalveRuns(Tail(s))
    ELSE LET n == LeadingSpaces(s)
         IN [i \in 1..((n + 1) \div 2) |-> " "] \o HalveRuns(SubSeq(s, n + 1, Len(s)))

C26_FrameColumnsAreCols ==
    ps.pc = "frame" =>
        /\ ps.df.columns = ps.cols
        /\ Len(ps.df.columns) = Len(ws.hdr)
        /\ Cardinality(Range(ps.df.columns)) = Len(ws.hdr)
        /\ \A i \in 1..Len(num_cols(ps)) : ColPositions(ps.df, num_cols(ps)[i]) # {}

(***************************************************************************)
(* Claims about executing cells again                                      *)
(***************************************************************************)

\* C27: whenever the accumulation cell has finished, every (file, sub-sheet)
\* block is in globals_by_sheet[num] exactly once: the frame is the blocks of
\* the files one after the other, and no file has given two blocks.
C27_EachBlockExactlyOnce ==
    pc.cell = "export" =>
        \A num \in Nums :
            /\ globals_by_sheet[num].rows = SeriesOfBlocks(num).rows
            /\ \A i, j \in 1..Len(blocks[num]) :
                  blocks[num][i].path = blocks[num][j].path => i = j

\* C30: a step of the accumulation loop that fails writes and alters no
\* artifact and the run has written none before; the artifacts change only in
\* the export cell, when every file that holds a sub-sheet has given its block.
C30_FailedRunLeavesArtifacts ==
    [][/\ (pc.cell = "loop" /\ pc'.cell = "failed")
          => (artifacts' = artifacts /\ written = {} /\ written' = {})
       /\ (artifacts' # artifacts)
          => /\ pc.cell = "export"
             /\ \A num \in Nums, path \in PathSet :
                    HasSheet(path, num) => path \in BlockPaths(num)]_vars

\* the loop failed at its second file and the files an earlier run had left
\* are still there
C30_Witness ==
    /\ pc.cell = "failed"
    /\ Len(Paths) >= 2
    /\ Len(blocks[<<"1">>]) >= 1
    /\ written = {}
    /\ \A a \in ArtifactPaths : artifacts[a] = StaleFile

\* C28: the numeric preprocessing of the upload notebook is idempotent: run
\* again on the files it has written, it leaves every number as it was.
C28_PreprocessingIdempotent ==
    Len(prepValues) >= 2 => prepValues[2] = prepValues[1]

\* C29: when a bulk-upload run has ended, every CSV file it found is in a
\* table of its own: the table named after the file holds the rows of that
\* file, not those of another file of the run.
C29_DistinctFilesDistinctTables ==
    upc = "done" =>
        \A path \in GlobCsv(DOMAIN processed) :
            /\ table_name(path) \in DOMAIN tables
            /\ tables[table_name(path)].source = path

====
